---- MODULE Spec2Model ----
(***************************************************************************)
(* Verification model of the my-gym-log client: the Active Workout editor  *)
(* and its session (pages/ActiveWorkout.tsx), the unit preference          *)
(* (hooks/useSettings.tsx), and the queries and client-side aggregations   *)
(* of the Dashboard, Progress, ExerciseDetails, History and Profile views. *)
(*                                                                         *)
(* Time is counted in ticks; TicksPerDay ticks make one local calendar day.*)
(* Weights are DECIMAL(10,2) values, held as integer hundredths of a kg.   *)
(***************************************************************************)
EXTENDS Integers, Sequences, FiniteSets, TLC

VARIABLES
    exercises,           \* ActiveWorkout: useState<WorkoutExercise[]> (local list)
    dbWorkoutExercises,  \* store: rows of public.workout_exercises
    dbSets,              \* store: rows of public.sets
    nextId,              \* store: next generated primary key
    dbWorkout,           \* store: rows of public.workouts with the editor's id (one or none)
    workout,             \* ActiveWorkout: useState<{ id, name, started_at } | null>(null)
    elapsedTime,         \* ActiveWorkout: useState(0), seconds
    clock,               \* Date.now(), in steps of 1/StepsPerSecond s
    timers,              \* the live setInterval timers of the window
    toast,               \* ActiveWorkout: the last notification shown with toast(...)
    public,              \* store: the tables of schema public, rows of every user
    uid,                 \* store: auth.uid() of the last request
    result,              \* store: the rows the last select returned
    calls,               \* ActiveWorkout: the calls of its handlers, each with the
                         \* exercises of the render it was made in
    templateExercises,   \* store: the rows of public.template_exercises of one template
    unit,                \* SettingsProvider: useState<UnitPreference>
    gymUnit,             \* localStorage item 'gym-unit': {} when absent, else {value}
    convertCall,         \* the last call of convertWeight: its arguments and the unit then
    converted,           \* what that call returned, in hundredths
    visits,              \* how many times the application has been started
    lastSet,             \* the last call of setUnit: its argument and the visit it was made in
    page,                \* the page that is mounted
    storeOnline,         \* whether the store answers the reads of the mounted view
    now,                 \* the current time (new Date()), in ticks
    workouts,            \* store: the user's rows of public.workouts, entries nested
    workoutExercises,    \* rows fetched by ExerciseDetails.fetchHistory
    currentStreak,       \* Dashboard: stats.currentStreak
    weeklyVolume,        \* Progress: data.weeklyVolume
    monthlyWorkouts,     \* Progress: data.monthlyWorkouts
    personalRecords,     \* Progress: data.personalRecords
    prMap,               \* Progress: prMap entries in insertion order
    history,             \* ExerciseDetails: history
    stats,               \* ExerciseDetails: stats
    historyList,         \* History: workouts
    profileStats,        \* Profile: stats
    loading,             \* Dashboard, History, Progress, Profile: useState(true)
    pc                   \* position of the view's fetch: "fetched" | "done" | "failed";
                         \* of the application: "stopped" | "running"

editorVars == <<exercises, dbWorkoutExercises, dbSets, nextId>>
sessionVars == <<dbWorkout, workout, elapsedTime, clock, timers, toast>>
settingsVars == <<unit, gymUnit, convertCall, converted, visits, lastSet>>
policyVars == <<public, uid, result>>
callVars == <<calls>>
templateVars == <<templateExercises>>
viewInputs == <<page, storeOnline, now, workouts, workoutExercises>>
dashboardOut == <<currentStreak>>
progressOut == <<weeklyVolume, monthlyWorkouts, personalRecords, prMap>>
historyOut == <<history, stats>>
profileOut == <<historyList, profileStats>>
viewVars == <<viewInputs, dashboardOut, progressOut, historyOut, profileOut, loading, pc>>

vars == <<editorVars, sessionVars, settingsVars, policyVars, callVars, templateVars,
         viewVars>>

----------------------------------------------------------------------------
(* Bounds of the model *)

MaxExercises == 2      \* exercise entries in the editor's list
MaxSets == 3           \* sets per exercise entry
MaxId == 5            \* primary keys the store hands out
TicksPerDay == 2       \* resolution of the time of day
StepsPerSecond == 2    \* resolution of the editor's clock

(* Values of the program *)

NULL == -1             \* SQL NULL / JS null of a nullable number column
WeightScale == 100         \* weight DECIMAL(10,2): hundredths of a kg
WorkoutId == 1         \* useParams().id, the workout being edited
ExerciseIds == {"Bench Press", "Squat"}   \* rows of public.exercises
BenchPress == 1        \* exercise names are numbered: 1 is "Bench Press",
Squat == 2             \* 2 is "Squat"

----------------------------------------------------------------------------
(* Generic helpers *)

Range(s) == {s[i] : i \in DOMAIN s}

RECURSIVE SeqSum(_)
SeqSum(s) == IF s = <<>> THEN 0 ELSE Head(s) + SeqSum(Tail(s))

\* SQL default row of public.sets for an insert of (workout_exercise_id, set_number)
NewSetRow(id, weId, n) ==
    [id |-> id, workout_exercise_id |-> weId, set_number |-> n,
     weight |-> NULL, reps |-> NULL, rpe |-> NULL, is_completed |-> FALSE]

\* Profile: useState<ProfileStats | null>(null)
NoProfileStats == [totalWorkouts |-> NULL, totalWeightLifted |-> NULL, exercisesUsed |-> NULL]

\* useState<ExerciseStats | null>(null)
NoStats == [maxWeight |-> 0, totalSets |-> 0, timesPerformed |-> 0]

----------------------------------------------------------------------------
(* Active Workout editor *)

\* The editor's workout state while it is null
NoWorkout == [started_at |-> NULL]

\* setInterval(callback, 1000) called at `created` by the effect that read
\* startTime from workout.started_at: the callback is due every second
Timer(startTime, created) ==
    [startTime |-> startTime, created |-> created, due |-> created + StepsPerSecond]

\* A workout that CreateWorkout has just inserted (started_at DEFAULT now(),
\* completed_at and duration_seconds null) and the editor has loaded
SessionStarted ==
    /\ dbWorkout = {[started_at |-> 0, completed_at |-> NULL, duration_seconds |-> NULL]}
    /\ workout = [started_at |-> 0]
    /\ elapsedTime = 0
    /\ clock = 0
    /\ timers = <<Timer(0, 0)>>
    /\ toast = "none"

\* The preference of a first visit, after the persist effect has run
NoCall == [weight |-> 0, toUnit |-> "", unit |-> ""]
NoSet == [unit |-> "", visit |-> 0]

SettingsDefault ==
    /\ unit = "kg"
    /\ gymUnit = {"kg"}
    /\ convertCall = NoCall
    /\ converted = 0
    /\ visits = 1
    /\ lastSet = NoSet

\* The store after the migration: the default exercises and no row of any
\* user; no request has been made
StoreSeeded ==
    /\ public = [exercises |-> {[id |-> BenchPress, name |-> BenchPress, is_custom |-> FALSE,
                                  user_id |-> NULL]},
                 workouts |-> {}, workout_exercises |-> {}, sets |-> {}]
    /\ uid = NULL
    /\ result = [table |-> "", rows |-> {}]

NoEntries ==
    /\ exercises = <<>>
    /\ calls = <<>>
    /\ templateExercises = {}
    /\ dbWorkoutExercises = {}
    /\ dbSets = {}

EditorIdle ==
    /\ NoEntries
    /\ StoreSeeded
    /\ nextId = 1
    /\ SessionStarted
    /\ SettingsDefault

\* The views before their first fetch has returned
NothingShown ==
    /\ currentStreak = 0
    /\ weeklyVolume = <<>>
    /\ monthlyWorkouts = <<>>
    /\ personalRecords = <<>>
    /\ prMap = <<>>
    /\ history = <<>>
    /\ stats = NoStats
    /\ historyList = <<>>
    /\ profileStats = NoProfileStats
    /\ loading = TRUE

ViewIdle ==
    /\ page = "ActiveWorkout"
    /\ storeOnline = TRUE
    /\ now = 0
    /\ workouts = <<>>
    /\ workoutExercises = <<>>
    /\ NothingShown
    /\ pc = "idle"

\* addExercise(exercise): insert the entry, then its first set; the first
\* set's insert may fail without an exception (firstSet is then null). The
\* entry's insert fails when its workout is gone (workout_id REFERENCES
\* public.workouts).
addExercise(exercise, okEntry, okSet) ==
    /\ page = "ActiveWorkout"
    /\ Len(exercises) < MaxExercises
    /\ nextId + 1 <= MaxId
    /\ IF ~okEntry \/ dbWorkout = {}
       THEN UNCHANGED editorVars
       ELSE LET weId == nextId
                setId == nextId + 1
                firstSet == NewSetRow(setId, weId, 1)
            IN /\ dbWorkoutExercises' = dbWorkoutExercises \cup
                     {[id |-> weId, workout_id |-> WorkoutId,
                       exercise_id |-> exercise,
                       order_index |-> Len(exercises)]}
               /\ dbSets' = IF okSet THEN dbSets \cup {firstSet} ELSE dbSets
               /\ nextId' = IF okSet THEN nextId + 2 ELSE nextId + 1
               /\ exercises' = Append(exercises,
                     [id |-> weId, exercise |-> exercise,
                      sets |-> IF okSet THEN <<firstSet>> ELSE <<>>])
    /\ UNCHANGED <<sessionVars, settingsVars, policyVars, callVars, templateVars, viewVars>>

\* The set number addSet gives the new set
NextSetNumber(currentSets) == Len(currentSets) + 1

\* addSet(workoutExerciseId, currentSets), called with we.id and we.sets
addSet(i, ok) ==
    /\ page = "ActiveWorkout"
    /\ i \in DOMAIN exercises
    /\ Len(exercises[i].sets) < MaxSets
    /\ nextId <= MaxId
    /\ IF ~ok
       THEN UNCHANGED editorVars
       ELSE LET we == exercises[i]
                data == NewSetRow(nextId, we.id, NextSetNumber(we.sets))
            IN /\ dbSets' = dbSets \cup {data}
               /\ nextId' = nextId + 1
               /\ exercises' = [exercises EXCEPT ![i].sets = Append(@, data)]
               /\ UNCHANGED dbWorkoutExercises
    /\ UNCHANGED <<sessionVars, settingsVars, policyVars, callVars, templateVars, viewVars>>

\* deleteSet(workoutExerciseId, setId): the result of the store delete is
\* not inspected, the local list is filtered in both cases.
deleteSet(i, setId, ok) ==
    /\ page = "ActiveWorkout"
    /\ i \in DOMAIN exercises
    /\ \E s \in Range(exercises[i].sets) : s.id = setId
    /\ dbSets' = IF ok THEN {r \in dbSets : r.id # setId} ELSE dbSets
    /\ exercises' = [exercises EXCEPT
                       ![i].sets = SelectSeq(@, LAMBDA s : s.id # setId)]
    /\ UNCHANGED <<dbWorkoutExercises, nextId>>
    /\ UNCHANGED <<sessionVars, settingsVars, policyVars, callVars, templateVars, viewVars>>

\* removeExercise(workoutExerciseId): sets go with their entry (ON DELETE CASCADE)
removeExercise(i, ok) ==
    /\ page = "ActiveWorkout"
    /\ i \in DOMAIN exercises
    /\ LET weId == exercises[i].id
       IN /\ dbWorkoutExercises' =
                IF ok THEN {r \in dbWorkoutExercises : r.id # weId}
                      ELSE dbWorkoutExercises
          /\ dbSets' = IF ok THEN {r \in dbSets : r.workout_exercise_id # weId}
                             ELSE dbSets
          /\ exercises' = SelectSeq(exercises, LAMBDA we : we.id # weId)
    /\ UNCHANGED nextId
    /\ UNCHANGED <<sessionVars, settingsVars, policyVars, callVars, templateVars, viewVars>>

\* What every handler of the editor leaves alone outside the editor
viewData == <<storeOnline, now, workouts, workoutExercises, dashboardOut, progressOut,
              historyOut, profileOut, loading, pc>>

\* The effort ratings of the model are hundredths; the column rpe
\* DECIMAL(3,1) keeps tenths. Weights are in the hundredths the column
\* weight DECIMAL(10,2) keeps, repetitions are the integers of reps INTEGER.
RpeScale == 100
ColumnStep(field) == IF field = "rpe" THEN RpeScale \div 10 ELSE 1

\* The value a numeric column keeps of the value it is assigned: rounded
\* to the column's scale, halves away from zero (the values are not negative)
Coerced(field, value) ==
    IF value = NULL THEN NULL
    ELSE ((2 * value + ColumnStep(field)) \div (2 * ColumnStep(field))) * ColumnStep(field)

\* updateSet(setId, field, value): the result of the store update is not
\* inspected, the local list is updated in both cases.
updateSet(setId, field, value, ok) ==
    /\ page = "ActiveWorkout"
    /\ \E i \in DOMAIN exercises : \E s \in Range(exercises[i].sets) : s.id = setId
    /\ dbSets' = IF ok
                 THEN {IF r.id = setId THEN [r EXCEPT ![field] = Coerced(field, value)] ELSE r :
                          r \in dbSets}
                 ELSE dbSets
    /\ exercises' = [i \in DOMAIN exercises |->
                        [exercises[i] EXCEPT !.sets =
                            [j \in DOMAIN @ |->
                                IF @[j].id = setId THEN [@[j] EXCEPT ![field] = value]
                                ELSE @[j]]]]
    /\ UNCHANGED <<dbWorkoutExercises, nextId>>
    /\ UNCHANGED <<sessionVars, settingsVars, policyVars, callVars, templateVars, viewVars>>

\* toggleSetComplete(setId, isCompleted), called with set.id and
\* set.is_completed of the local list
toggleSetComplete(setId, ok) ==
    /\ page = "ActiveWorkout"
    /\ \E i \in DOMAIN exercises : \E s \in Range(exercises[i].sets) :
          /\ s.id = setId
          /\ dbSets' = IF ok
                       THEN {IF r.id = setId THEN [r EXCEPT !.is_completed = ~s.is_completed]
                             ELSE r : r \in dbSets}
                       ELSE dbSets
          /\ exercises' = [k \in DOMAIN exercises |->
                              [exercises[k] EXCEPT !.sets =
                                  [j \in DOMAIN @ |->
                                      IF @[j].id = setId
                                      THEN [@[j] EXCEPT !.is_completed = ~s.is_completed]
                                      ELSE @[j]]]]
    /\ UNCHANGED <<dbWorkoutExercises, nextId>>
    /\ UNCHANGED <<sessionVars, settingsVars, policyVars, callVars, templateVars, viewVars>>

\* return () => clearInterval(interval): the cleanup of the timer effect
\* clears the interval its last run has set
Cleanup(live) == SubSeq(live, 1, Len(live) - 1)

\* The body of the effect on [workout], run at t with the workout wk while
\* the timers `live` are set: a new interval unless the workout is null
SetTimer(live, wk, t) ==
    IF wk = NoWorkout THEN live
    ELSE Append(live, Timer(wk.started_at, t))

\* Faulty variant: the effect returns no cleanup
TimerEffectKept(live, wk, t) == SetTimer(live, wk, t)

\* The effect run again for a new workout object: the cleanup of its last
\* run, then its body
TimerEffect(live, wk, t) == SetTimer(Cleanup(live), wk, t)

\* navigate('/dashboard'): the editor is unmounted, its effects are cleaned
\* up and its state is gone
LeaveEditor ==
    /\ page' = "Dashboard"
    /\ workout' = NoWorkout
    /\ exercises' = <<>>
    /\ elapsedTime' = 0
    /\ timers' = Cleanup(timers)

\* finishWorkout(): the result of the store update is not inspected, the
\* toast and the navigation follow in both cases.
finishWorkout(ok) ==
    /\ page = "ActiveWorkout"
    /\ dbWorkout' = IF ok
                    THEN {[w EXCEPT !.completed_at = clock,
                                    !.duration_seconds = elapsedTime] : w \in dbWorkout}
                    ELSE dbWorkout
    /\ toast' = "Workout Complete!"
    /\ LeaveEditor
    /\ UNCHANGED <<dbWorkoutExercises, dbSets, nextId, clock>>
    /\ UNCHANGED <<settingsVars, policyVars, callVars, templateVars, viewData>>

\* Faulty variant: the delete is not preceded by confirm(...)
cancelWorkoutUnasked(confirmed, ok) ==
    /\ page = "ActiveWorkout"
    /\ dbWorkout' = IF ok THEN {} ELSE dbWorkout
    /\ dbWorkoutExercises' =
          IF ok THEN {r \in dbWorkoutExercises : r.workout_id # WorkoutId}
                ELSE dbWorkoutExercises
    /\ dbSets' =
          IF ok THEN {r \in dbSets :
                         \E we \in dbWorkoutExercises :
                            we.id = r.workout_exercise_id /\ we.workout_id # WorkoutId}
                ELSE dbSets
    /\ LeaveEditor
    /\ UNCHANGED <<nextId, clock, toast>>
    /\ UNCHANGED <<settingsVars, policyVars, callVars, templateVars, viewData>>

\* cancelWorkout(): confirm(...), then the delete, whose result is not
\* inspected; the rows of workout_exercises and sets go with the workout
\* (ON DELETE CASCADE).
cancelWorkout(confirmed, ok) ==
    /\ page = "ActiveWorkout"
    /\ IF ~confirmed
       THEN UNCHANGED vars
       ELSE /\ dbWorkout' = IF ok THEN {} ELSE dbWorkout
            /\ dbWorkoutExercises' =
                  IF ok THEN {r \in dbWorkoutExercises : r.workout_id # WorkoutId}
                        ELSE dbWorkoutExercises
            /\ dbSets' =
                  IF ok THEN {r \in dbSets :
                                 \E we \in dbWorkoutExercises :
                                    we.id = r.workout_exercise_id /\ we.workout_id # WorkoutId}
                        ELSE dbSets
            /\ LeaveEditor
            /\ UNCHANGED <<nextId, clock, toast>>
            /\ UNCHANGED <<settingsVars, policyVars, callVars, templateVars, viewData>>

\* The rows of a table in an order the store may return them in for
\* .order(key), and that a stable sort by key keeps: ties in any order
OrderedBy(rows, key) ==
    {s \in [1..Cardinality(rows) -> rows] :
        /\ \A j, k \in DOMAIN s : j # k => s[j] # s[k]
        /\ \A j, k \in DOMAIN s : j < k => s[j][key] <= s[k][key]}

SetsOf(weId) == {r \in dbSets : r.workout_exercise_id = weId}

\* setWorkout(workoutData) and setExercises(formattedExercises)
WorkoutFound ==
    /\ \E w \in dbWorkout : workout' = [started_at |-> w.started_at]
    /\ \E es \in OrderedBy(dbWorkoutExercises, "order_index") :
       \E ss \in [DOMAIN es -> UNION {OrderedBy(SetsOf(we.id), "set_number") :
                                          we \in dbWorkoutExercises}] :
          /\ \A i \in DOMAIN es : ss[i] \in OrderedBy(SetsOf(es[i].id), "set_number")
          /\ exercises' = [i \in DOMAIN es |->
                              [id |-> es[i].id, exercise |-> es[i].exercise_id,
                               sets |-> ss[i]]]

\* fetchWorkout(), run when the page is mounted (opened from CreateWorkout,
\* reached again with the browser's history, or reloaded): the workout is
\* looked up by its id alone, then its entries by order_index, each with
\* its sets by set_number.
\* A reload ends the window's timers with the window.
fetchWorkout ==
    /\ page \in {"ActiveWorkout", "Dashboard", "Settings"}
    /\ page' = "ActiveWorkout"
    /\ elapsedTime' = 0
    /\ IF dbWorkout = {}
       THEN /\ workout' = NoWorkout
            /\ exercises' = <<>>
       ELSE WorkoutFound
    /\ timers' = SetTimer(IF page = "ActiveWorkout" THEN <<>> ELSE timers, workout', clock)
    /\ UNCHANGED <<dbWorkout, dbWorkoutExercises, dbSets, nextId, clock, toast>>
    /\ UNCHANGED <<settingsVars, policyVars, callVars, templateVars, viewData>>

\* fetchWorkout(), run again by the effect on [user, id] of the mounted
\* editor when the auth state hands out a new user object: setWorkout gets
\* a new object, so the timer effect runs again. A workout that is not found
\* throws before any state is set.
refetchWorkout ==
    /\ page = "ActiveWorkout"
    /\ IF dbWorkout = {}
       THEN UNCHANGED <<workout, exercises, timers>>
       ELSE /\ WorkoutFound
            /\ timers' = TimerEffect(timers, workout', clock)
    /\ UNCHANGED <<dbWorkout, dbWorkoutExercises, dbSets, nextId, clock, toast, elapsedTime>>
    /\ UNCHANGED <<settingsVars, policyVars, callVars, templateVars, viewVars>>

\* Bound of the session
MaxClock == 4              \* steps of the clock the session lasts

\* Math.floor((now - startTime) / 1000)
ElapsedSeconds(t, startTime) == (t - startTime) \div StepsPerSecond

\* The timers whose callback is due at t
Due(live, t) == {k \in DOMAIN live : live[k].due <= t}

\* The clock moves on by a step; each interval callback that is due runs and
\* is due again a second later. The callback of a mounted editor sets
\* elapsedTime to floor((Date.now() - startTime) / 1000).
Tick ==
    /\ clock < MaxClock
    /\ clock' = clock + 1
    /\ timers' = [k \in DOMAIN timers |->
                     IF k \in Due(timers, clock')
                     THEN [timers[k] EXCEPT !.due = @ + StepsPerSecond]
                     ELSE timers[k]]
    /\ elapsedTime' =
          IF page = "ActiveWorkout" /\ Due(timers, clock') # {}
          THEN LET last == CHOOSE k \in Due(timers, clock') :
                              \A j \in Due(timers, clock') : j <= k
               IN ElapsedSeconds(clock', timers[last].startTime)
          ELSE elapsedTime
    /\ UNCHANGED <<dbWorkout, workout, toast>>
    /\ UNCHANGED <<editorVars, settingsVars, policyVars, callVars, templateVars, viewVars>>

EditorNext ==
    \/ \E e \in ExerciseIds, okEntry \in BOOLEAN, okSet \in BOOLEAN :
          addExercise(e, okEntry, okSet)
    \/ \E i \in 1..MaxExercises, ok \in BOOLEAN : addSet(i, ok)
    \/ \E i \in 1..MaxExercises, setId \in 1..MaxId, ok \in BOOLEAN :
          deleteSet(i, setId, ok)
    \/ \E i \in 1..MaxExercises, ok \in BOOLEAN : removeExercise(i, ok)

EditorInit == EditorIdle /\ ViewIdle

SpecEditor == EditorInit /\ [][EditorNext]_vars

\* The weights typed in the session: 100 kg, or the field cleared
SessionWeights == {NULL, 100 * WeightScale}

SessionNext ==
    \/ EditorNext
    \/ \E setId \in 1..MaxId, value \in SessionWeights, ok \in BOOLEAN :
          updateSet(setId, "weight", value, ok)
    \/ \E setId \in 1..MaxId, ok \in BOOLEAN : toggleSetComplete(setId, ok)
    \/ \E ok \in BOOLEAN : finishWorkout(ok)
    \/ \E confirmed \in BOOLEAN, ok \in BOOLEAN : cancelWorkout(confirmed, ok)
    \/ fetchWorkout
    \/ Tick

\* A session of a user whose store has handed out all but two keys
SessionInit ==
    /\ NoEntries
    /\ StoreSeeded
    /\ nextId = MaxId - 1
    /\ SessionStarted
    /\ SettingsDefault
    /\ ViewIdle

SpecSession == SessionInit /\ [][SessionNext]_vars

----------------------------------------------------------------------------
(* C1: in every state of the editor the set numbers of every exercise      *)
(* entry of the local list are pairwise distinct and are exactly 1..n,     *)
(* n being the number of sets of the entry.                                *)

SetNumbersDense(sets) ==
    /\ \A j, k \in DOMAIN sets : j # k => sets[j].set_number # sets[k].set_number
    /\ {sets[j].set_number : j \in DOMAIN sets} = 1..Len(sets)

C1_SetNumbersDense ==
    \A i \in DOMAIN exercises : SetNumbersDense(exercises[i].sets)

----------------------------------------------------------------------------
(* Dates *)

\* Local calendar day of an instant
DayOf(t) == t \div TicksPerDay

\* date-fns compareLocalAsc: sign of the difference of two instants
CompareLocalAsc(a, b) == IF a < b THEN -1 ELSE IF a > b THEN 1 ELSE 0

\* date-fns differenceInCalendarDays(dateLeft, dateRight)
DifferenceInCalendarDays(a, b) == DayOf(a) - DayOf(b)

Abs(x) == IF x < 0 THEN -x ELSE x

\* date-fns differenceInDays(dateLeft, dateRight): the number of full days
\* between the two instants, counted from the calendar-day difference and
\* reduced by one when the last day is not full.
\* Faulty variant: the calendar-day difference is taken for the full-day difference
CalendarDifferenceInDays(a, b) == DifferenceInCalendarDays(a, b)

DifferenceInDays(a, b) ==
    LET sign == CompareLocalAsc(a, b)
        difference == Abs(DifferenceInCalendarDays(a, b))
        shifted == a - sign * difference * TicksPerDay
        isLastDayNotFull == IF CompareLocalAsc(shifted, b) = -sign THEN 1 ELSE 0
    IN sign * (difference - isLastDayNotFull)

\* date-fns subDays(date, amount)
SubDays(t, amount) == t - amount * TicksPerDay

----------------------------------------------------------------------------
(* Dashboard: current streak *)

\* The for-loop of fetchDashboardStats over the fetched workouts; ws holds
\* the completed_at values still to visit.
RECURSIVE StreakLoop(_, _, _)
StreakLoop(ws, checkDate, streak) ==
    IF ws = <<>> THEN streak
    ELSE LET workoutDate == Head(ws).completed_at
             daysDiff == DifferenceInDays(checkDate, workoutDate)
         IN IF daysDiff <= 1
            THEN StreakLoop(Tail(ws), workoutDate, streak + 1)
            ELSE streak

Streak(ws, today) == StreakLoop(ws, today, 0)

\* Bounds of the streak inputs
MaxStreakWorkouts == 3     \* completed workouts fetched
MaxDaysBack == 4           \* oldest completion, in days before now
Today == 60                \* the calendar day of the current time

Nows == {Today * TicksPerDay + tod : tod \in 0..(TicksPerDay - 1)}

\* .not('completed_at', 'is', null); the row-level security policy already
\* limits the rows to the user's own, as .eq('user_id', user.id) does
IsCompleted(w) == w.completed_at # NULL

\* .order('completed_at', { ascending: false })
RECURSIVE InsertNewestFirst(_, _)
InsertNewestFirst(sorted, w) ==
    IF sorted = <<>> THEN <<w>>
    ELSE IF Head(sorted).completed_at >= w.completed_at
         THEN <<Head(sorted)>> \o InsertNewestFirst(Tail(sorted), w)
         ELSE <<w>> \o sorted

RECURSIVE OrderNewestFirst(_)
OrderNewestFirst(ws) ==
    IF ws = <<>> THEN <<>>
    ELSE InsertNewestFirst(OrderNewestFirst(SubSeq(ws, 1, Len(ws) - 1)), ws[Len(ws)])

\* The rows the Dashboard, Progress and History queries return
CompletedWorkouts(ws) == OrderNewestFirst(SelectSeq(ws, IsCompleted))

\* A store that holds completed workouts only, newest first
SortedDescending(ws) ==
    \A i \in 1..(Len(ws) - 1) : ws[i].completed_at >= ws[i + 1].completed_at

StreakRows(n) ==
    [1..n -> [completed_at : {n0 - k : n0 \in Nows, k \in 0..(MaxDaysBack * TicksPerDay)},
              workout_exercises : {<<>>}]]

StreakInit ==
    /\ EditorIdle
    /\ page = "Dashboard"
    /\ storeOnline = TRUE
    /\ now \in Nows
    /\ \E n \in 0..MaxStreakWorkouts :
          /\ workouts \in StreakRows(n)
          /\ SortedDescending(workouts)
          /\ \A i \in 1..n : workouts[i].completed_at <= now
                              /\ workouts[i].completed_at >= now - MaxDaysBack * TicksPerDay
    /\ workoutExercises = <<>>
    /\ NothingShown
    /\ pc = "fetched"

\* The read of the mounted view has been answered: the first one, or that of
\* a later run of the effect on [user]
ReadAnswered == pc \in {"fetched", "refetched"}

\* Where the fetch ends: in its catch block, or past its state updates for
\* the first or a later time
ReadEnded ==
    IF ~storeOnline THEN "failed"
    ELSE IF pc = "refetched" THEN "redone" ELSE "done"

\* A failed read leaves `workouts` null (the error is not inspected): the
\* statistics are those of no workouts
fetchDashboardStats ==
    /\ page = "Dashboard"
    /\ ReadAnswered
    /\ LET data == IF storeOnline THEN CompletedWorkouts(workouts) ELSE <<>>
       IN currentStreak' = Streak(data, now)
    /\ loading' = FALSE
    /\ pc' = ReadEnded
    /\ UNCHANGED <<viewInputs, progressOut, historyOut, profileOut>>
    /\ UNCHANGED <<editorVars, sessionVars, settingsVars, policyVars, callVars, templateVars>>

SpecStreak == StreakInit /\ [][fetchDashboardStats]_vars

\* The check date of the i-th workout: today, then the workout before it
CheckDate(ws, today, i) == IF i = 1 THEN today ELSE ws[i - 1].completed_at

\* Less than two full days lie between the check date and the completion
AtMostOneDayBefore(checkDate, t) == checkDate - t < 2 * TicksPerDay

PrefixCounted(ws, today, k) ==
    \A i \in 1..k : AtMostOneDayBefore(CheckDate(ws, today, i), ws[i].completed_at)

LongestCountedPrefix(ws, today) ==
    CHOOSE k \in 0..Len(ws) :
        /\ PrefixCounted(ws, today, k)
        /\ \A m \in (k + 1)..Len(ws) : ~PrefixCounted(ws, today, m)

CompletedAt(ws) == [i \in DOMAIN ws |-> ws[i].completed_at]

C3_StreakCountsCalendarDays ==
    pc = "done" =>
        currentStreak =
            Cardinality({DayOf(workouts[i].completed_at) : i \in 1..currentStreak})

(* C4: when the calendar dates of a workout and of its check date are 2 or *)
(* more days apart, that workout and all older ones are not counted.       *)
C4_GapEndsStreak ==
    pc = "done" =>
        \A i \in DOMAIN workouts :
            DifferenceInCalendarDays(CheckDate(workouts, now, i),
                                     workouts[i].completed_at) >= 2
                => currentStreak < i

----------------------------------------------------------------------------
(* Progress: weekly volume *)

DaysPerWeek == 7           \* subDays(new Date(), i * 7)
FirstWeek == 7             \* for (let i = 7; ...)

\* (x || 0) of a nullable number
OrZero(x) == IF x = NULL THEN 0 ELSE x

\* Math.round of a value given in hundredths: nearest integer, halves up
MathRound(x) == (x + WeightScale \div 2) \div WeightScale

\* format(date, 'MMM d'): month and day of month, the year and the time of
\* day are dropped (years of 365 days)
FormatMMMd(t) == DayOf(t) % 365

\* (we.sets as any[])?.forEach(set => weekVolume += ...)
RECURSIVE SetsVolume(_)
SetsVolume(sets) ==
    IF sets = <<>> THEN 0
    ELSE OrZero(Head(sets).weight) * OrZero(Head(sets).reps) + SetsVolume(Tail(sets))

\* (workout.workout_exercises as any[])?.forEach(we => ...)
RECURSIVE EntriesVolume(_)
EntriesVolume(entries) ==
    IF entries = <<>> THEN 0
    ELSE SetsVolume(Head(entries).sets) + EntriesVolume(Tail(entries))

\* Faulty variant: the end of the week is included
InWeekInclusive(workoutDate, weekStart, weekEnd) ==
    workoutDate >= weekStart /\ workoutDate <= weekEnd

\* The test that puts a workout into the week [weekStart, weekEnd)
InWeek(workoutDate, weekStart, weekEnd) ==
    workoutDate >= weekStart /\ workoutDate < weekEnd

\* workouts?.forEach(workout => ...) for one week
RECURSIVE WeekVolume(_, _, _)
WeekVolume(ws, weekStart, weekEnd) ==
    IF ws = <<>> THEN 0
    ELSE (IF InWeek(Head(ws).completed_at, weekStart, weekEnd)
          THEN EntriesVolume(Head(ws).workout_exercises) ELSE 0)
         + WeekVolume(Tail(ws), weekStart, weekEnd)

\* The week of loop index i
WeekStart(today, i) == SubDays(today, i * DaysPerWeek)
WeekEnd(today, i) == SubDays(today, (i - 1) * DaysPerWeek)

\* Faulty variant: no week is skipped
EveryWeekKept(i) == TRUE

\* if (i < 7): the weeks that are pushed
WeekKept(i) == i < FirstWeek

\* for (let i = 7; i >= 0; i--) { ... }
RECURSIVE WeeklyLoop(_, _, _, _)
WeeklyLoop(i, ws, today, acc) ==
    IF i < 0 THEN acc
    ELSE LET weekStart == WeekStart(today, i)
             weekEnd == WeekEnd(today, i)
             weekVolume == WeekVolume(ws, weekStart, weekEnd)
         IN WeeklyLoop(i - 1, ws, today,
               IF WeekKept(i)
               THEN Append(acc, [date |-> FormatMMMd(weekStart),
                                 volume |-> MathRound(weekVolume)])
               ELSE acc)

WeeklyVolume(ws, today) == WeeklyLoop(FirstWeek, ws, today, <<>>)

\* Bounds of the weekly inputs
MaxWeeklyWorkouts == 2     \* completed workouts fetched

\* Completion times: at and just before every week boundary of the last
\* 8 weeks
WeeklyTimes(today) ==
    {t \in {SubDays(today, i * DaysPerWeek) + d :
               i \in 0..(FirstWeek + 1), d \in {-1, 0}} : t <= today}

Set50x10 == [weight |-> 50 * WeightScale, reps |-> 10]
SetFraction == [weight |-> 250, reps |-> 1]
SetNoWeight == [weight |-> NULL, reps |-> 5]
SetNoReps == [weight |-> 120 * WeightScale, reps |-> NULL]
\* A set entered with a weight below zero (an assisted exercise): the weight
\* input and the column take any number
SetAssisted == [weight |-> (0 - 5) * WeightScale, reps |-> 5]

Entry(name, sets) == [exercise |-> name, sets |-> sets]

WeeklyShapes ==
    {<<>>,
     <<Entry(BenchPress, <<Set50x10>>)>>,
     <<Entry(BenchPress, <<SetFraction>>)>>,
     <<Entry(BenchPress, <<Set50x10, SetNoWeight>>)>>,
     <<Entry(BenchPress, <<SetFraction>>), Entry(Squat, <<SetNoReps>>)>>}

WeeklyInit ==
    /\ EditorIdle
    /\ page = "Progress"
    /\ storeOnline = TRUE
    /\ now = Today * TicksPerDay
    /\ \E n \in 0..MaxWeeklyWorkouts :
          /\ workouts \in [1..n -> [completed_at : WeeklyTimes(now),
                                    workout_exercises : WeeklyShapes]]
          /\ SortedDescending(workouts)
    /\ workoutExercises = <<>>
    /\ NothingShown
    /\ pc = "fetched"


(* C5: the weekly volume series has exactly 7 entries and is ordered        *)
(* oldest bucket first (each entry's bucket starts 7 days after the one     *)
(* before it).                                                              *)
C5_SevenEntriesOldestFirst ==
    pc = "done" =>
        /\ Len(weeklyVolume) = 7
        /\ \A k \in 1..(Len(weeklyVolume) - 1) :
              (weeklyVolume[k + 1].date - weeklyVolume[k].date) % 365 = 7

C5_Witness ==
    /\ pc = "done"
    /\ Len(weeklyVolume) = 7
    /\ Len(workouts) >= 2
    /\ \E k \in DOMAIN weeklyVolume : weeklyVolume[k].volume > 0

\* Volume, in hundredths, of the workouts completed in [lo, hi)
VolumeOf(w) ==
    SeqSum([e \in DOMAIN w.workout_exercises |->
        SeqSum([j \in DOMAIN w.workout_exercises[e].sets |->
            LET set == w.workout_exercises[e].sets[j]
            IN (IF set.weight = NULL THEN 0 ELSE set.weight)
               * (IF set.reps = NULL THEN 0 ELSE set.reps)])])

BucketSum(ws, lo, hi) ==
    SeqSum([i \in DOMAIN ws |->
        IF lo <= ws[i].completed_at /\ ws[i].completed_at < hi
        THEN VolumeOf(ws[i]) ELSE 0])

(* C6: the newest entry covers the 7 days ending now (a workout completed  *)
(* in the last 7 days is counted in it) and each earlier entry covers the  *)
(* 7 days just before the next one.                                        *)
C6_NewestBucketEndsNow ==
    pc = "done" =>
        \A k \in DOMAIN weeklyVolume :
            weeklyVolume[k].volume =
                MathRound(BucketSum(workouts,
                    SubDays(now, (Len(weeklyVolume) - k + 1) * 7),
                    SubDays(now, (Len(weeklyVolume) - k) * 7)))

\* The bucket of the k-th entry: the 7 days from the day its label names
BucketLo(today, k) == SubDays(today, (7 - k) * 7)
BucketHi(today, k) == SubDays(today, (6 - k) * 7)

SingleSet(ws, i) ==
    /\ Len(ws[i].workout_exercises) = 1
    /\ ws[i].workout_exercises[1].sets = <<Set50x10>>

(* C7 as claimed: every entry's volume is the exact sum of weight x reps   *)
(* over the workouts completed in the entry's bucket.                      *)
C7_VolumeIsExactSum ==
    pc = "done" =>
        \A k \in DOMAIN weeklyVolume :
            weeklyVolume[k].volume * WeightScale =
                BucketSum(workouts, BucketLo(now, k), BucketHi(now, k))

(* C7, amended: every entry's volume is the sum of weight x reps (null as  *)
(* 0) over the workouts completed in the entry's bucket, rounded to the    *)
(* nearest integer (halves up); a lone workout with the single set 50 x 10 *)
(* in one bucket gives 500 in that entry and 0 in every other.             *)
C7_VolumeIsRoundedSum ==
    pc = "done" =>
        /\ \A k \in DOMAIN weeklyVolume :
              LET sum == BucketSum(workouts, BucketLo(now, k), BucketHi(now, k))
              IN /\ 2 * WeightScale * weeklyVolume[k].volume <= 2 * sum + WeightScale
                 /\ 2 * WeightScale * weeklyVolume[k].volume > 2 * sum - WeightScale
        /\ \A k \in DOMAIN weeklyVolume :
              (/\ Len(workouts) = 1
               /\ SingleSet(workouts, 1)
               /\ BucketLo(now, k) <= workouts[1].completed_at
               /\ workouts[1].completed_at < BucketHi(now, k))
              => \A m \in DOMAIN weeklyVolume :
                    weeklyVolume[m].volume = IF m = k THEN 500 ELSE 0

C7_Witness ==
    /\ pc = "done"
    /\ \E k \in DOMAIN weeklyVolume :
          /\ BucketSum(workouts, BucketLo(now, k), BucketHi(now, k)) = 250
          /\ weeklyVolume[k].volume = 3
    /\ \E k \in DOMAIN weeklyVolume, i \in DOMAIN workouts :
          /\ SingleSet(workouts, i)
          /\ BucketLo(now, k) <= workouts[i].completed_at
          /\ workouts[i].completed_at < BucketHi(now, k)
          /\ weeklyVolume[k].volume = 500

----------------------------------------------------------------------------
(* Progress: personal records *)

PRLimit == 10              \* .slice(0, 10)

\* The JS Map prMap is held as the sequence of its entries in insertion
\* order, each [exercise, weight, date].
MapHas(map, key) == \E i \in DOMAIN map : map[i].exercise = key
MapIndex(map, key) == CHOOSE i \in DOMAIN map : map[i].exercise = key

\* Faulty variant: the comparison is turned around
Lighter(weight, existingWeight) == weight < existingWeight

\* weight > existing.weight
Beats(weight, existingWeight) == weight > existingWeight

\* Faulty variant: a set as heavy as the record replaces it
PRVisitSetOrEqual(map, name, set, completedAt) ==
    LET weight == OrZero(set.weight)
    IN IF ~MapHas(map, name)
       THEN Append(map, [exercise |-> name, weight |-> weight, date |-> completedAt])
       ELSE IF weight >= map[MapIndex(map, name)].weight
            THEN [map EXCEPT ![MapIndex(map, name)] =
                     [exercise |-> name, weight |-> weight, date |-> completedAt]]
            ELSE map

\* The body of the innermost forEach: one set of exercise `name`
PRVisitSet(map, name, set, completedAt) ==
    LET weight == OrZero(set.weight)
    IN IF ~MapHas(map, name)
       THEN Append(map, [exercise |-> name, weight |-> weight, date |-> completedAt])
       ELSE IF Beats(weight, map[MapIndex(map, name)].weight)
            THEN [map EXCEPT ![MapIndex(map, name)] =
                     [exercise |-> name, weight |-> weight, date |-> completedAt]]
            ELSE map

RECURSIVE PRVisitSets(_, _, _, _)
PRVisitSets(map, name, sets, completedAt) ==
    IF sets = <<>> THEN map
    ELSE PRVisitSets(PRVisitSet(map, name, Head(sets), completedAt),
                     name, Tail(sets), completedAt)

\* forEach over workout.workout_exercises; an entry without a name is skipped
RECURSIVE PRVisitEntries(_, _, _)
PRVisitEntries(map, entries, completedAt) ==
    IF entries = <<>> THEN map
    ELSE LET we == Head(entries)
         IN PRVisitEntries(
               IF we.exercise = NULL THEN map
               ELSE PRVisitSets(map, we.exercise, we.sets, completedAt),
               Tail(entries), completedAt)

\* workouts?.forEach(workout => ...)
RECURSIVE PRVisitWorkouts(_, _)
PRVisitWorkouts(map, ws) ==
    IF ws = <<>> THEN map
    ELSE PRVisitWorkouts(
            PRVisitEntries(map, Head(ws).workout_exercises, Head(ws).completed_at),
            Tail(ws))

PRMap(ws) == PRVisitWorkouts(<<>>, ws)

\* Faulty variant: lighter records first
LighterFirst(a, b) == a.weight - b.weight

\* The comparator (a, b) => b.weight - a.weight
HeavierFirst(a, b) == b.weight - a.weight

\* Array.prototype.sort with that comparator (stable): insert r into the
\* sorted sequence s behind every element that does not sort after it
RECURSIVE InsertByWeight(_, _)
InsertByWeight(s, r) ==
    IF s = <<>> THEN <<r>>
    ELSE IF HeavierFirst(Head(s), r) <= 0
         THEN <<Head(s)>> \o InsertByWeight(Tail(s), r)
         ELSE <<r>> \o s

RECURSIVE SortByWeight(_)
SortByWeight(s) ==
    IF s = <<>> THEN <<>>
    ELSE InsertByWeight(SortByWeight(SubSeq(s, 1, Len(s) - 1)), s[Len(s)])

Min(a, b) == IF a < b THEN a ELSE b
Max(a, b) == IF a > b THEN a ELSE b

\* .slice(0, n)
SliceFirst(s, n) == SubSeq(s, 1, Min(n, Len(s)))

PersonalRecords(map) == SliceFirst(SortByWeight(map), PRLimit)

\* Bounds of the personal-record inputs
MaxPRWorkouts == 2         \* workouts of the small inputs
MaxPRNames == 11           \* exercise names of the wide inputs

W(kg) == [weight |-> kg * WeightScale, reps |-> 5]

PRShapes ==
    {<<>>}
    \cup {<<Entry(n, sets)>> : n \in {BenchPress, Squat},
             sets \in {<<>>, <<W(100)>>, <<W(120)>>, <<SetNoWeight>>, <<W(100), W(120)>>}}
    \cup {<<Entry(BenchPress, <<s1>>), Entry(Squat, <<s2>>)>> :
             s1 \in {W(100), W(120)}, s2 \in {W(100), W(120)}}
    \cup {<<Entry(BenchPress, <<W(100)>>), Entry(BenchPress, <<W(120)>>)>>}

\* Small inputs: up to MaxPRWorkouts workouts on the last two days
PRSmallInputs(today) ==
    UNION {{ws \in [1..n -> [completed_at : {SubDays(today, 1), SubDays(today, 2)},
                             workout_exercises : PRShapes]] : SortedDescending(ws)}
           : n \in 0..MaxPRWorkouts}

\* Wide inputs: one workout with one set for each of MaxPRNames exercises
PRWideInputs(today) ==
    {<<[completed_at |-> SubDays(today, 1),
        workout_exercises |-> [n \in 1..MaxPRNames |-> Entry(n, <<W(f[n])>>)]]>> :
        f \in [1..MaxPRNames -> {100, 120}]}

PRInit ==
    /\ EditorIdle
    /\ page = "Progress"
    /\ storeOnline = TRUE
    /\ now = Today * TicksPerDay
    /\ workouts \in PRSmallInputs(now) \cup PRWideInputs(now)
    /\ workoutExercises = <<>>
    /\ NothingShown
    /\ pc = "fetched"

----------------------------------------------------------------------------
(* Progress: monthly frequency *)

\* Calendar days are numbered from 0 and every month has 30 days
MonthLength == 30

\* startOfMonth(date), as a calendar day
StartOfMonth(t) == DayOf(t) - (DayOf(t) % MonthLength)

\* format(day, 'd'): the day of the month
FormatD(day) == (day % MonthLength) + 1

\* eachDayOfInterval({ start, end }): the days from start's through end's
EachDayOfInterval(startDay, endDay) ==
    [k \in 1..(endDay - startDay + 1) |-> startDay + k - 1]

\* isSameDay(new Date(w.completed_at), day)
IsSameDay(t, day) == DayOf(t) = day

\* Faulty variant: a day counts once however many workouts it has
DayCountClamped(ws, day) ==
    IF Len(SelectSeq(ws, LAMBDA w : IsSameDay(w.completed_at, day))) > 0 THEN 1 ELSE 0

\* workouts?.filter(w => isSameDay(...)).length || 0
DayCount(ws, day) == Len(SelectSeq(ws, LAMBDA w : IsSameDay(w.completed_at, day)))

MonthlyWorkouts(ws, today) ==
    LET daysInRange == EachDayOfInterval(StartOfMonth(today), DayOf(today))
    IN [k \in DOMAIN daysInRange |->
           [date |-> FormatD(daysInRange[k]), count |-> DayCount(ws, daysInRange[k])]]

\* Bounds of the monthly inputs
MaxMonthlyWorkouts == 3    \* completed workouts fetched
MaxDayOfMonth == 3         \* days of the month that have gone by

MonthlyInit ==
    /\ EditorIdle
    /\ page = "Progress"
    /\ storeOnline = TRUE
    /\ now \in {n + d * TicksPerDay : n \in Nows, d \in 0..MaxDayOfMonth}
    /\ \E n \in 0..MaxMonthlyWorkouts :
          /\ workouts \in [1..n -> [completed_at : {now - k : k \in 0..(MaxDaysBack * TicksPerDay)},
                                    workout_exercises : {<<>>}]]
          /\ SortedDescending(workouts)
    /\ workoutExercises = <<>>
    /\ NothingShown
    /\ pc = "fetched"

\* Faulty variant: the weekly list outlives the call, so that the entries of a
\* later run are pushed behind those of the earlier one
fetchProgressDataKept ==
    /\ page = "Progress"
    /\ ReadAnswered
    /\ LET data == IF storeOnline THEN CompletedWorkouts(workouts) ELSE <<>>
       IN /\ weeklyVolume' = weeklyVolume \o WeeklyVolume(data, now)
          /\ monthlyWorkouts' = MonthlyWorkouts(data, now)
          /\ prMap' = PRMap(data)
          /\ personalRecords' = PersonalRecords(PRMap(data))
    /\ loading' = FALSE
    /\ pc' = ReadEnded
    /\ UNCHANGED <<viewInputs, dashboardOut, historyOut, profileOut>>
    /\ UNCHANGED <<editorVars, sessionVars, settingsVars, policyVars, callVars, templateVars>>

\* A failed read leaves `workouts` null (workouts?.forEach, workouts?.filter):
\* the series are those of no workouts
fetchProgressData ==
    /\ page = "Progress"
    /\ ReadAnswered
    /\ LET data == IF storeOnline THEN CompletedWorkouts(workouts) ELSE <<>>
       IN /\ weeklyVolume' = WeeklyVolume(data, now)
          /\ monthlyWorkouts' = MonthlyWorkouts(data, now)
          /\ prMap' = PRMap(data)
          /\ personalRecords' = PersonalRecords(PRMap(data))
    /\ loading' = FALSE
    /\ pc' = ReadEnded
    /\ UNCHANGED <<viewInputs, dashboardOut, historyOut, profileOut>>
    /\ UNCHANGED <<editorVars, sessionVars, settingsVars, policyVars, callVars, templateVars>>

SpecWeekly == WeeklyInit /\ [][fetchProgressData]_vars

SpecPR == PRInit /\ [][fetchProgressData]_vars

SpecMonthly == MonthlyInit /\ [][fetchProgressData]_vars

\* The names of the fetched exercise entries, and those with a set
NamesIn(ws) ==
    UNION {{ws[i].workout_exercises[e].exercise : e \in DOMAIN ws[i].workout_exercises}
           : i \in DOMAIN ws}

\* <<workout, weight>> of every set logged for a name (null weight as 0)
LoggedFor(ws, name) ==
    UNION {UNION {{<<i, IF ws[i].workout_exercises[e].sets[j].weight = NULL THEN 0
                        ELSE ws[i].workout_exercises[e].sets[j].weight>> :
                      j \in DOMAIN ws[i].workout_exercises[e].sets}
                  : e \in {x \in DOMAIN ws[i].workout_exercises :
                              ws[i].workout_exercises[x].exercise = name}}
           : i \in DOMAIN ws}

HasRecordOfMax(map, ws, name) ==
    /\ Cardinality({k \in DOMAIN map : map[k].exercise = name}) = 1
    /\ \A k \in DOMAIN map : map[k].exercise = name =>
          /\ \A l \in LoggedFor(ws, name) : l[2] <= map[k].weight
          /\ \E l \in LoggedFor(ws, name) :
                l[2] = map[k].weight /\ ws[l[1]].completed_at = map[k].date

Example100Then120(ws) ==
    /\ Len(ws) = 2
    /\ ws[1].completed_at # ws[2].completed_at
    /\ \E a, b \in {1, 2} :
          /\ a # b
          /\ ws[a].workout_exercises = <<Entry(BenchPress, <<W(100)>>)>>
          /\ ws[b].workout_exercises = <<Entry(BenchPress, <<W(120)>>)>>
          /\ prMap = <<[exercise |-> BenchPress, weight |-> 120 * WeightScale,
                        date |-> ws[b].completed_at]>>

(* C8 as claimed: every exercise name that occurs in a completed workout   *)
(* has exactly one record, holding the maximum weight logged for the name  *)
(* and the completion date of a workout with a set of that weight.         *)
C8_RecordForEveryName ==
    pc = "done" =>
        \A name \in NamesIn(workouts) : HasRecordOfMax(prMap, workouts, name)

(* C8, amended: every exercise name that occurs with at least one set in a *)
(* completed workout has exactly one record, holding the maximum weight    *)
(* (null as 0) logged for the name and the completion date of a workout    *)
(* with a set of that weight; sets (Bench Press, 100) and (Bench Press,    *)
(* 120) on different dates give 120 with the date of the 120 workout.      *)
C8_RecordForEveryNameWithSets ==
    pc = "done" =>
        /\ \A name \in NamesIn(workouts) :
              LoggedFor(workouts, name) # {} => HasRecordOfMax(prMap, workouts, name)
        /\ (/\ Len(workouts) = 2
            /\ workouts[1].completed_at # workouts[2].completed_at
            /\ \E a \in {1, 2} :
                  /\ workouts[a].workout_exercises = <<Entry(BenchPress, <<W(100)>>)>>
                  /\ workouts[3 - a].workout_exercises = <<Entry(BenchPress, <<W(120)>>)>>)
           => Example100Then120(workouts)

C8_Witness ==
    /\ pc = "done"
    /\ Example100Then120(workouts)
    /\ workouts[1].workout_exercises = <<Entry(BenchPress, <<W(100)>>)>>

(* C9: the personal records are sorted by weight descending and are at     *)
(* most 10; they are records of the map, all of them when the map has at   *)
(* most 10, and otherwise no dropped record is heavier than a kept one.    *)
C9_SortedTopTen ==
    pc = "done" =>
        /\ Len(personalRecords) = Min(PRLimit, Len(prMap))
        /\ \A k \in 1..(Len(personalRecords) - 1) :
              personalRecords[k].weight >= personalRecords[k + 1].weight
        /\ Range(personalRecords) \subseteq Range(prMap)
        /\ Cardinality(Range(personalRecords)) = Len(personalRecords)
        /\ \A r \in Range(prMap) \ Range(personalRecords) :
              \A q \in Range(personalRecords) : r.weight <= q.weight

C9_Witness ==
    /\ pc = "done"
    /\ Len(prMap) > PRLimit
    /\ Len(personalRecords) = PRLimit
    /\ \E r \in Range(prMap) \ Range(personalRecords) :
          \E q \in Range(personalRecords) : r.weight < q.weight

----------------------------------------------------------------------------
(* ExerciseDetails: per-exercise history *)

HistoryLimit == 10         \* .slice(-10)
User == 1                  \* user.id of the signed-in user

\* format(date, 'yyyy-MM-dd'): the local calendar day
FormatDay(t) == DayOf(t)

\* new Date('yyyy-MM-dd').getTime(): midnight of that day
ParseDay(d) == d * TicksPerDay

\* The filter to the user's completed workouts
IsUserWorkout(we) ==
    we.workout.user_id = User /\ we.workout.completed_at # NULL

\* sets.forEach(...): maximum weight and volume of one entry's sets
RECURSIVE SetsMaxWeight(_)
SetsMaxWeight(sets) ==
    IF sets = <<>> THEN 0
    ELSE Max(OrZero(Head(sets).weight), SetsMaxWeight(Tail(sets)))

\* historyMap as the sequence of its entries [date, maxWeight, totalVolume]
\* in insertion order
DateHas(map, key) == \E i \in DOMAIN map : map[i].date = key
DateIndex(map, key) == CHOOSE i \in DOMAIN map : map[i].date = key

HistoryVisit(map, we) ==
    LET dateKey == FormatDay(we.workout.completed_at)
        dayMaxWeight == SetsMaxWeight(we.sets)
        dayVolume == SetsVolume(we.sets)
    IN IF DateHas(map, dateKey)
       THEN [map EXCEPT ![DateIndex(map, dateKey)] =
                [date |-> dateKey,
                 maxWeight |-> Max(@.maxWeight, dayMaxWeight),
                 totalVolume |-> @.totalVolume + dayVolume]]
       ELSE Append(map, [date |-> dateKey, maxWeight |-> Max(0, dayMaxWeight),
                         totalVolume |-> 0 + dayVolume])

RECURSIVE HistoryMap(_, _)
HistoryMap(map, rows) ==
    IF rows = <<>> THEN map
    ELSE HistoryMap(HistoryVisit(map, Head(rows)), Tail(rows))

\* The comparator of the history sort: parsed date ascending
EarlierFirst(a, b) == ParseDay(a.date) - ParseDay(b.date)

RECURSIVE InsertByDate(_, _)
InsertByDate(s, r) ==
    IF s = <<>> THEN <<r>>
    ELSE IF EarlierFirst(Head(s), r) <= 0
         THEN <<Head(s)>> \o InsertByDate(Tail(s), r)
         ELSE <<r>> \o s

RECURSIVE SortByDate(_)
SortByDate(s) ==
    IF s = <<>> THEN <<>>
    ELSE InsertByDate(SortByDate(SubSeq(s, 1, Len(s) - 1)), s[Len(s)])

\* Faulty variant: the first n are kept
SliceHead(s, n) == SubSeq(s, 1, Min(n, Len(s)))

\* .slice(-n)
SliceLast(s, n) == SubSeq(s, Max(1, Len(s) - n + 1), Len(s))

UserWorkouts(rows) == SelectSeq(rows, IsUserWorkout)

HistoryArray(rows) ==
    SliceLast(SortByDate(HistoryMap(<<>>, UserWorkouts(rows))), HistoryLimit)

RECURSIVE RowsMaxWeight(_)
RowsMaxWeight(rows) ==
    IF rows = <<>> THEN 0
    ELSE Max(SetsMaxWeight(Head(rows).sets), RowsMaxWeight(Tail(rows)))

ExerciseStats(rows) ==
    [maxWeight |-> RowsMaxWeight(UserWorkouts(rows)),
     totalSets |-> SeqSum([i \in DOMAIN UserWorkouts(rows) |->
                              Len(UserWorkouts(rows)[i].sets)]),
     timesPerformed |-> Len(UserWorkouts(rows))]

\* Bounds of the history inputs
MaxHistoryRows == 2        \* rows of the small inputs
MaxHistoryDays == 12       \* days of the wide inputs

\* A row of workout_exercises with its workout joined; the workout's id
\* (workout_exercises.workout_id) tells the workouts apart
HistoryRow(workoutId, completedAt, sets) ==
    [workout |-> [id |-> workoutId, completed_at |-> completedAt, user_id |-> User],
     sets |-> sets]

\* The user's workouts of the small inputs: one in progress, two completed
\* today and one on each of the two days before
SmallWorkouts(today) ==
    {<<1, NULL>>, <<2, today>>, <<3, today - 1>>,
     <<4, SubDays(today, 1)>>, <<5, SubDays(today, 2)>>}

\* Small inputs: rows of today and the days before, also of a workout in
\* progress, in any order
HistorySmallInputs(today) ==
    UNION {[1..n -> {HistoryRow(w[1], w[2], sets) :
                        w \in SmallWorkouts(today),
                        sets \in {<<>>, <<W(100)>>, <<SetFraction, W(120)>>, <<SetNoWeight>>,
                                  <<SetNoReps>>, <<SetAssisted>>}}]
           : n \in 0..MaxHistoryRows}

\* The orders in which the store returns the rows of the wide inputs
RowOrders == {"ascending", "descending", "split"}

RECURSIVE DaysInOrder(_, _, _)
DaysInOrder(days, order, acc) ==
    IF days = {} THEN acc
    ELSE LET lo == CHOOSE d \in days : \A e \in days : d <= e
             hi == CHOOSE d \in days : \A e \in days : d >= e
             pick == IF order = "ascending" THEN lo
                     ELSE IF order = "descending" THEN hi
                     ELSE IF Len(acc) % 2 = 0 THEN hi ELSE lo
         IN DaysInOrder(days \ {pick}, order, Append(acc, pick))

\* Wide inputs: one completed workout on each day of a set of days
HistoryWideInputs(today) ==
    {[i \in DOMAIN DaysInOrder(days, order, <<>>) |->
         HistoryRow(10 + DaysInOrder(days, order, <<>>)[i],
                    SubDays(today, DaysInOrder(days, order, <<>>)[i]) - 1,
                    <<W(100 + DaysInOrder(days, order, <<>>)[i])>>)] :
        days \in SUBSET (1..MaxHistoryDays), order \in RowOrders}

HistoryInit ==
    /\ EditorIdle
    /\ page = "ExerciseDetails"
    /\ storeOnline = TRUE
    /\ now = Today * TicksPerDay + 1
    /\ workoutExercises \in HistorySmallInputs(now) \cup HistoryWideInputs(now)
    /\ workouts = <<>>
    /\ NothingShown
    /\ pc = "fetched"

\* A failed read throws into the catch block; the page's loading state
\* belongs to fetchExercise
fetchHistory ==
    /\ page = "ExerciseDetails"
    /\ ReadAnswered
    /\ IF storeOnline
       THEN /\ stats' = ExerciseStats(workoutExercises)
            /\ history' = HistoryArray(workoutExercises)
       ELSE UNCHANGED <<stats, history>>
    /\ pc' = ReadEnded
    /\ UNCHANGED <<viewInputs, dashboardOut, progressOut, profileOut, loading>>
    /\ UNCHANGED <<editorVars, sessionVars, settingsVars, policyVars, callVars, templateVars>>

SpecHistory == HistoryInit /\ [][fetchHistory]_vars

\* The calendar days on which the user completed a workout with the exercise
QualifyingDays(rows) ==
    {rows[i].workout.completed_at \div TicksPerDay :
        i \in {j \in DOMAIN rows : rows[j].workout.completed_at # NULL}}

(* C10: the history has at most 10 entries, at most one per calendar day,  *)
(* in ascending order of date, and its days are the (up to) 10 most recent *)
(* days that qualify.                                                      *)
C10_HistoryLastTenDays ==
    pc = "done" =>
        /\ Len(history) <= 10
        /\ \A j, k \in DOMAIN history : j < k => history[j].date < history[k].date
        /\ {history[k].date : k \in DOMAIN history} =
              {d \in QualifyingDays(workoutExercises) :
                  Cardinality({e \in QualifyingDays(workoutExercises) : e > d}) < 10}

C10_Witness ==
    /\ pc = "done"
    /\ Cardinality(QualifyingDays(workoutExercises)) > 10
    /\ Len(history) = 10
    /\ workoutExercises[1].workout.completed_at > workoutExercises[2].workout.completed_at

\* The user's completed workouts that contain the exercise
QualifyingWorkouts(rows) ==
    {rows[i].workout.id :
        i \in {j \in DOMAIN rows : /\ rows[j].workout.completed_at # NULL
                                   /\ rows[j].workout.user_id = User}}

(* C11: the 'sessions' statistic is the number of distinct completed       *)
(* workouts of the user that contain the exercise, also when the exercise  *)
(* was added more than once to one workout.                                *)
C11_SessionsAreDistinctWorkouts ==
    pc = "done" =>
        stats.timesPerformed = Cardinality(QualifyingWorkouts(workoutExercises))

----------------------------------------------------------------------------
\* The completed workouts whose completion date is the k-th day of the
\* current month
DayOfMonthNow(today) == ((today \div TicksPerDay) % 30) + 1

CompletedOnDayOfMonth(ws, today, k) ==
    {i \in DOMAIN ws :
        ws[i].completed_at \div TicksPerDay
            = today \div TicksPerDay - (DayOfMonthNow(today) - k)}

(* C12: the monthly frequency series has one entry for every calendar day  *)
(* from the first day of the current month through today, in order, and    *)
(* each entry's count is the number of completed workouts completed on     *)
(* that day, without clamping.                                             *)
C12_MonthlyOneEntryPerDay ==
    pc = "done" =>
        /\ Len(monthlyWorkouts) = DayOfMonthNow(now)
        /\ \A k \in DOMAIN monthlyWorkouts :
              /\ monthlyWorkouts[k].date = k
              /\ monthlyWorkouts[k].count =
                    Cardinality(CompletedOnDayOfMonth(workouts, now, k))

C12_Witness ==
    /\ pc = "done"
    /\ Len(monthlyWorkouts) >= 2
    /\ \E k \in DOMAIN monthlyWorkouts : monthlyWorkouts[k].count = 2
    /\ \E k \in DOMAIN monthlyWorkouts : monthlyWorkouts[k].count = 0
    /\ \E i \in DOMAIN workouts : workouts[i].completed_at < StartOfMonth(now) * TicksPerDay

----------------------------------------------------------------------------
(* The store read by every view: completed workouts and workouts in        *)
(* progress side by side                                                   *)

\* History.fetchWorkouts: the completed workouts, newest first
HistoryList(ws) ==
    [i \in DOMAIN CompletedWorkouts(ws) |->
        [id |-> CompletedWorkouts(ws)[i].id,
         completed_at |-> CompletedWorkouts(ws)[i].completed_at,
         exercise_count |-> Len(CompletedWorkouts(ws)[i].workout_exercises)]]

\* Faulty variant: a failed read returns before the loading state is ended
fetchWorkoutsStuck ==
    /\ page = "History"
    /\ ReadAnswered
    /\ historyList' = IF storeOnline THEN HistoryList(workouts) ELSE historyList
    /\ loading' = IF storeOnline THEN FALSE ELSE loading
    /\ pc' = ReadEnded
    /\ UNCHANGED <<viewInputs, dashboardOut, progressOut, historyOut, profileStats>>
    /\ UNCHANGED <<editorVars, sessionVars, settingsVars, policyVars, callVars, templateVars>>

\* A failed read throws into the catch block, the list stays as it is;
\* finally { setLoading(false) }
fetchWorkouts ==
    /\ page = "History"
    /\ ReadAnswered
    /\ historyList' = IF storeOnline THEN HistoryList(workouts) ELSE historyList
    /\ loading' = FALSE
    /\ pc' = ReadEnded
    /\ UNCHANGED <<viewInputs, dashboardOut, progressOut, historyOut, profileStats>>
    /\ UNCHANGED <<editorVars, sessionVars, settingsVars, policyVars, callVars, templateVars>>

\* Profile, first query: workouts with their sets, completed only
RECURSIVE TotalWeight(_)
TotalWeight(ws) ==
    IF ws = <<>> THEN 0
    ELSE EntriesVolume(Head(ws).workout_exercises) + TotalWeight(Tail(ws))

\* Profile, second query: exercise_id of every workout_exercises row the
\* user can see, whatever the state of its workout
ExerciseIdsUsed(ws) ==
    UNION {{ws[i].workout_exercises[e].exercise : e \in DOMAIN ws[i].workout_exercises}
           : i \in DOMAIN ws}

ProfileStats(ws) ==
    [totalWorkouts |-> Len(SelectSeq(ws, IsCompleted)),
     totalWeightLifted |-> TotalWeight(SelectSeq(ws, IsCompleted)),
     exercisesUsed |-> Cardinality(ExerciseIdsUsed(ws))]

\* Failed reads leave `workouts` and `workoutExercises` undefined (neither
\* error is inspected): the totals are those of no workouts
fetchProfileStats ==
    /\ page = "Profile"
    /\ ReadAnswered
    /\ profileStats' = ProfileStats(IF storeOnline THEN workouts ELSE <<>>)
    /\ loading' = FALSE
    /\ pc' = ReadEnded
    /\ UNCHANGED <<viewInputs, dashboardOut, progressOut, historyOut, historyList>>
    /\ UNCHANGED <<editorVars, sessionVars, settingsVars, policyVars, callVars, templateVars>>

\* from('workout_exercises') ... .eq('exercise_id', id): the entries of one
\* exercise, each with its workout joined
RECURSIVE EntryRows(_, _, _)
EntryRows(w, entries, exerciseId) ==
    IF entries = <<>> THEN <<>>
    ELSE (IF Head(entries).exercise = exerciseId
          THEN <<HistoryRow(w.id, w.completed_at, Head(entries).sets)>>
          ELSE <<>>) \o EntryRows(w, Tail(entries), exerciseId)

RECURSIVE WorkoutExercisesOf(_, _)
WorkoutExercisesOf(ws, exerciseId) ==
    IF ws = <<>> THEN <<>>
    ELSE EntryRows(Head(ws), Head(ws).workout_exercises, exerciseId)
            \o WorkoutExercisesOf(Tail(ws), exerciseId)

\* Bounds of the store
MaxStoreWorkouts == 3      \* workouts of the user in the store

Pages == {"Dashboard", "Progress", "ExerciseDetails", "History", "Profile"}

\* A workout of the store: in progress, or completed today or yesterday, with
\* no entry, a Bench Press entry or a Squat entry
StoreWorkouts(today, id) ==
    {[id |-> id, completed_at |-> c, workout_exercises |-> es] :
        c \in {NULL, today - 1, SubDays(today, 1)},
        es \in {<<>>, <<Entry(BenchPress, <<W(100)>>)>>, <<Entry(Squat, <<W(120)>>)>>}}

StoreInit ==
    /\ EditorIdle
    /\ page \in Pages
    /\ storeOnline = TRUE
    /\ now = Today * TicksPerDay + 1
    /\ \E n \in 0..MaxStoreWorkouts :
          /\ workouts \in [1..n -> UNION {StoreWorkouts(now, id) : id \in 1..n}]
          /\ \A i \in 1..n : workouts[i].id = i
    /\ workoutExercises = WorkoutExercisesOf(workouts, BenchPress)
    /\ NothingShown
    /\ pc = "fetched"

StoreNext ==
    \/ fetchDashboardStats
    \/ fetchProgressData
    \/ fetchHistory
    \/ fetchWorkouts
    \/ fetchProfileStats

SpecStore == StoreInit /\ [][StoreNext]_vars

\* The store without its workouts in progress, and the entries of one
\* exercise in it
Finished(ws) == SelectSeq(ws, LAMBDA w : w.completed_at # NULL)

FinishedRows(rows) == SelectSeq(rows, LAMBDA r : r.workout.completed_at # NULL)

(* C13: a workout in progress contributes to no view: what the Dashboard,  *)
(* Progress, ExerciseDetails, History and Profile pages show is what they  *)
(* show for the store without its workouts in progress.                    *)
C13_InProgressNeverCounts ==
    pc = "done" =>
        /\ page = "Dashboard" =>
              currentStreak = Streak(CompletedWorkouts(Finished(workouts)), now)
        /\ page = "Progress" =>
              /\ weeklyVolume = WeeklyVolume(CompletedWorkouts(Finished(workouts)), now)
              /\ monthlyWorkouts = MonthlyWorkouts(CompletedWorkouts(Finished(workouts)), now)
              /\ personalRecords =
                    PersonalRecords(PRMap(CompletedWorkouts(Finished(workouts))))
        /\ page = "ExerciseDetails" =>
              /\ history = HistoryArray(FinishedRows(workoutExercises))
              /\ stats = ExerciseStats(FinishedRows(workoutExercises))
        /\ page = "History" => historyList = HistoryList(Finished(workouts))
        /\ page = "Profile" => profileStats = ProfileStats(Finished(workouts))

\* The same without the Profile page's count of exercises
OtherViewsIgnoreInProgress ==
    pc = "done" =>
        /\ page # "Profile" => C13_InProgressNeverCounts
        /\ page = "Profile" =>
              /\ profileStats.totalWorkouts = ProfileStats(Finished(workouts)).totalWorkouts
              /\ profileStats.totalWeightLifted =
                    ProfileStats(Finished(workouts)).totalWeightLifted

----------------------------------------------------------------------------
(* C14: once the workout's completion timestamp has been set, no step of   *)
(* the editor changes its completion timestamp, its duration, or its       *)
(* exercise entries and sets (nor deletes the workout).                    *)
C14_CompletedIsFinal ==
    [][(\E w \in dbWorkout : w.completed_at # NULL) =>
          /\ dbWorkout' = dbWorkout
          /\ dbWorkoutExercises' = dbWorkoutExercises
          /\ dbSets' = dbSets]_vars

----------------------------------------------------------------------------
(* C15: the duration stored by finishWorkout is the number of whole        *)
(* seconds between the workout's start and its completion, to within one   *)
(* timer tick, also when the page was loaded again during the session.     *)
C15_DurationIsElapsedSeconds ==
    \A w \in dbWorkout :
        w.completed_at # NULL =>
            Abs(w.duration_seconds - ElapsedSeconds(w.completed_at, w.started_at)) <= 1

----------------------------------------------------------------------------
(* C16: a cancel the user declines changes no row of the store and leaves  *)
(* the editor on the workout; a cancel the user confirms and whose delete  *)
(* succeeds leaves the store without the workout, its exercise entries and *)
(* its sets; and the workout is deleted by no other step.                  *)
C16_CancelOnlyAfterConfirm ==
    [][/\ (\E ok \in BOOLEAN : cancelWorkout(FALSE, ok)) =>
             /\ UNCHANGED <<dbWorkout, dbWorkoutExercises, dbSets>>
             /\ page' = "ActiveWorkout"
             /\ UNCHANGED <<workout, exercises>>
       /\ cancelWorkout(TRUE, TRUE) =>
             /\ dbWorkout' = {}
             /\ \A we \in dbWorkoutExercises' : we.workout_id # WorkoutId
             /\ \A r \in dbSets' : \A we \in dbWorkoutExercises :
                   we.workout_id = WorkoutId => r.workout_exercise_id # we.id
       /\ (dbWorkout # {} /\ dbWorkout' = {}) => cancelWorkout(TRUE, TRUE)]_vars

\* The workout has been canceled after all three keys had been handed out
C16_Witness ==
    /\ page = "Dashboard"
    /\ dbWorkout = {}
    /\ nextId = MaxId + 1
    /\ dbWorkoutExercises = {}
    /\ dbSets = {}

----------------------------------------------------------------------------
(* Settings: the unit preference and the conversion *)

\* KG_TO_LBS = 2.20462 = KgToLbsNum / KgToLbsDen
KgToLbsNum == 110231
KgToLbsDen == 50000

\* Faulty variant: the tenths are cut off, not rounded
ConvertWeightTruncated(weight, toUnit, currentUnit) ==
    LET targetUnit == IF toUnit # "" THEN toUnit ELSE currentUnit
    IN IF targetUnit = "lbs"
       THEN 10 * ((weight * KgToLbsNum) \div (10 * KgToLbsDen))
       ELSE weight

\* convertWeight(weight, toUnit?), toUnit "" when omitted: a weight of
\* `weight` hundredths is weight / 100; Math.round(weight / 100 * KG_TO_LBS
\* * 10) tenths of a pound are 10 times as many hundredths
ConvertWeight(weight, toUnit, currentUnit) ==
    LET targetUnit == IF toUnit # "" THEN toUnit ELSE currentUnit
    IN IF targetUnit = "lbs"
       THEN 10 * ((weight * KgToLbsNum + 5 * KgToLbsDen) \div (10 * KgToLbsDen))
       ELSE weight

\* 'gym-unit' as a visit may find it: absent, empty, a unit, anything else
StoredUnits == {{}, {""}, {"kg"}, {"lbs"}, {"stone"}}

\* Weights convertWeight is called with, in hundredths of a kg
MaxConvertWeight == 30     \* every weight up to 0.30 kg, and
ConvertWeights == 0..MaxConvertWeight \cup {50 * WeightScale, 100 * WeightScale}

\* Bound of the visits
MaxVisits == 3

\* SettingsProvider is mounted: the useState initialiser reads 'gym-unit'
\* (saved || 'kg'), the effect then stores the unit.
SettingsProvider ==
    /\ pc = "stopped"
    /\ visits < MaxVisits
    /\ visits' = visits + 1
    /\ unit' = IF gymUnit = {} \/ gymUnit = {""} THEN "kg"
               ELSE CHOOSE saved \in gymUnit : TRUE
    /\ gymUnit' = {unit'}
    /\ pc' = "running"
    /\ UNCHANGED <<convertCall, converted, lastSet>>
    /\ UNCHANGED <<editorVars, sessionVars, policyVars, callVars, templateVars,
                   viewInputs, dashboardOut, progressOut,
                   historyOut, profileOut, loading>>

\* Faulty variant: the unit is not stored
setUnitUnsaved(newUnit) ==
    /\ page = "Settings"
    /\ pc = "running"
    /\ unit' = newUnit
    /\ lastSet' = [unit |-> newUnit, visit |-> visits]
    /\ UNCHANGED <<gymUnit, convertCall, converted, visits>>
    /\ UNCHANGED <<editorVars, sessionVars, policyVars, callVars, templateVars, viewVars>>

\* setUnit(newUnit), from the radio group of the Settings page; the effect
\* stores the unit when it has changed.
setUnit(newUnit) ==
    /\ page = "Settings"
    /\ pc = "running"
    /\ unit' = newUnit
    /\ gymUnit' = IF newUnit # unit THEN {newUnit} ELSE gymUnit
    /\ lastSet' = [unit |-> newUnit, visit |-> visits]
    /\ UNCHANGED <<convertCall, converted, visits>>
    /\ UNCHANGED <<editorVars, sessionVars, policyVars, callVars, templateVars, viewVars>>

\* A call of convertWeight by a page
convertWeight(weight, toUnit) ==
    /\ pc = "running"
    /\ convertCall' = [weight |-> weight, toUnit |-> toUnit, unit |-> unit]
    /\ converted' = ConvertWeight(weight, toUnit, unit)
    /\ UNCHANGED <<unit, gymUnit, visits, lastSet>>
    /\ UNCHANGED <<editorVars, sessionVars, policyVars, callVars, templateVars, viewVars>>

\* The tab is closed: the state of the provider is gone, the storage stays
closeTab ==
    /\ pc = "running"
    /\ pc' = "stopped"
    /\ unit' = ""
    /\ convertCall' = NoCall
    /\ converted' = 0
    /\ UNCHANGED <<gymUnit, visits, lastSet>>
    /\ UNCHANGED <<editorVars, sessionVars, policyVars, callVars, templateVars,
                   viewInputs, dashboardOut, progressOut,
                   historyOut, profileOut, loading>>

SettingsNext ==
    \/ SettingsProvider
    \/ \E newUnit \in {"kg", "lbs"} : setUnit(newUnit)
    \/ \E weight \in ConvertWeights, toUnit \in {"", "kg", "lbs"} :
          convertWeight(weight, toUnit)
    \/ closeTab

SettingsInit ==
    /\ NoEntries
    /\ StoreSeeded
    /\ nextId = 1
    /\ SessionStarted
    /\ unit = ""
    /\ gymUnit \in StoredUnits
    /\ convertCall = NoCall
    /\ converted = 0
    /\ visits = 0
    /\ lastSet = NoSet
    /\ page = "Settings"
    /\ storeOnline = TRUE
    /\ now = 0
    /\ workouts = <<>>
    /\ workoutExercises = <<>>
    /\ NothingShown
    /\ pc = "stopped"

SpecSettings == SettingsInit /\ [][SettingsNext]_vars

\* The unit the last call converted to
TargetOf(call) == IF call.toUnit = "" THEN call.unit ELSE call.toUnit

(* C17: convertWeight returns weight x 2.20462 rounded to one decimal      *)
(* place when the target is lbs (220.5 for 100, 0 for 0) and the weight    *)
(* unchanged when the target is kg; an omitted target is the current       *)
(* preference, an explicit target overrides it.                            *)
C17_ConvertRoundsToOneDecimal ==
    convertCall # NoCall =>
        /\ TargetOf(convertCall) = "lbs" =>
              /\ converted % 10 = 0
              /\ 2 * Abs((converted \div 10) * 10 * KgToLbsDen
                            - convertCall.weight * KgToLbsNum) <= 10 * KgToLbsDen
              /\ convertCall.weight = 100 * WeightScale => converted = 22050
              /\ convertCall.weight = 0 => converted = 0
        /\ TargetOf(convertCall) = "kg" => converted = convertCall.weight

C17_Witness ==
    /\ convertCall = [weight |-> 100 * WeightScale, toUnit |-> "lbs", unit |-> "kg"]
    /\ converted = 22050

----------------------------------------------------------------------------
(* C18: the unit preference of the running application is always kg or     *)
(* lbs, whatever 'gym-unit' held when the application was started.         *)
C18_UnitIsKgOrLbs ==
    pc = "running" => unit \in {"kg", "lbs"}

----------------------------------------------------------------------------
(* C19: after every setUnit(u) the stored 'gym-unit' is u; the application *)
(* started again after setUnit calls has the unit of the last call; and    *)
(* started with nothing stored it has kg.                                  *)
C19_UnitIsPersisted ==
    [][/\ \A u \in {"kg", "lbs"} : setUnit(u) => gymUnit' = {u}
       /\ lastSet' # NoSet =>
             /\ gymUnit' = {lastSet'.unit}
             /\ pc' = "running" => unit' = lastSet'.unit
       /\ (pc = "stopped" /\ pc' = "running" /\ gymUnit = {}) => unit' = "kg"]_vars

\* The second visit runs with the unit set during the first
C19_Witness ==
    /\ pc = "running"
    /\ visits = 2
    /\ lastSet = [unit |-> "lbs", visit |-> 1]
    /\ unit = "lbs"

----------------------------------------------------------------------------
(* Logging weights under a unit preference *)

\* The weight the user has lifted in every set, in hundredths of a kg
Lifted == 100 * WeightScale

\* The number the user types into the weight column for a weight lifted:
\* the column header shows the unit, so under 'lbs' it is the weight in
\* pounds, as the application itself displays weights
WeightTyped(lifted, shownUnit) == ConvertWeight(lifted, "", shownUnit)

\* The Settings page is opened from the editor: the editor is unmounted
openSettings ==
    /\ page = "ActiveWorkout"
    /\ page' = "Settings"
    /\ workout' = NoWorkout
    /\ exercises' = <<>>
    /\ elapsedTime' = 0
    /\ timers' = Cleanup(timers)
    /\ UNCHANGED <<dbWorkout, dbWorkoutExercises, dbSets, nextId, clock, toast>>
    /\ UNCHANGED <<settingsVars, policyVars, callVars, templateVars, viewData>>

LoggingNext ==
    \/ \E e \in ExerciseIds, okEntry \in BOOLEAN, okSet \in BOOLEAN :
          addExercise(e, okEntry, okSet)
    \/ \E setId \in 1..MaxId, ok \in BOOLEAN :
          updateSet(setId, "weight", WeightTyped(Lifted, unit), ok)
    \/ openSettings
    \/ \E newUnit \in {"kg", "lbs"} : setUnit(newUnit)
    \/ fetchWorkout

\* The editor of a user whose preference is kg or lbs
LoggingInit ==
    /\ NoEntries
    /\ StoreSeeded
    /\ nextId = MaxId - 3
    /\ SessionStarted
    /\ unit \in {"kg", "lbs"}
    /\ gymUnit = {unit}
    /\ convertCall = NoCall
    /\ converted = 0
    /\ visits = 1
    /\ lastSet = NoSet
    /\ page = "ActiveWorkout"
    /\ storeOnline = TRUE
    /\ now = 0
    /\ workouts = <<>>
    /\ workoutExercises = <<>>
    /\ NothingShown
    /\ pc = "running"

SpecLogging == LoggingInit /\ [][LoggingNext]_vars

(* C20: every stored weight is the weight lifted in kilograms, whatever    *)
(* the unit preference was when it was entered.                            *)
C20_StoredWeightsAreKg ==
    \A r \in dbSets : r.weight \in {NULL, Lifted}

----------------------------------------------------------------------------
(* C21: every step of the editor whose store write fails shows an error    *)
(* notification; a finish whose update failed does not show the success    *)
(* notification.                                                           *)
C21_FailedWritesAreSurfaced ==
    [][/\ finishWorkout(FALSE) => toast' \notin {toast, "Workout Complete!"}
       /\ (\E e \in ExerciseIds, okSet \in BOOLEAN : addExercise(e, FALSE, okSet)) =>
             toast' # toast
       /\ (\E i \in 1..MaxExercises : addSet(i, FALSE)) => toast' # toast
       /\ (\E i \in 1..MaxExercises, setId \in 1..MaxId : deleteSet(i, setId, FALSE)) =>
             toast' # toast
       /\ (\E i \in 1..MaxExercises : removeExercise(i, FALSE)) => toast' # toast
       /\ (\E setId \in 1..MaxId, value \in SessionWeights :
              updateSet(setId, "weight", value, FALSE)) => toast' # toast
       /\ (\E setId \in 1..MaxId : toggleSetComplete(setId, FALSE)) => toast' # toast
       /\ cancelWorkout(TRUE, FALSE) => toast' # toast]_vars

----------------------------------------------------------------------------
(* Reads that may fail *)

\* The views whose fetch ends their loading state
LoadingPages == {"Dashboard", "History", "Progress", "Profile"}

\* Bounds of the reads
MaxReadsWorkouts == 1      \* workouts of the user in the store

\* A view has been mounted on a store that answers its read or does not
ReadsInit ==
    /\ EditorIdle
    /\ page \in LoadingPages
    /\ storeOnline \in BOOLEAN
    /\ now = Today * TicksPerDay + 1
    /\ \E n \in 0..MaxReadsWorkouts :
          /\ workouts \in [1..n -> UNION {StoreWorkouts(now, id) : id \in 1..n}]
          /\ \A i \in 1..n : workouts[i].id = i
    /\ workoutExercises = WorkoutExercisesOf(workouts, BenchPress)
    /\ NothingShown
    /\ pc = "fetched"

ReadsNext ==
    \/ fetchDashboardStats
    \/ fetchProgressData
    \/ fetchWorkouts
    \/ fetchProfileStats

\* The continuation of an awaited read runs once the read has been answered
SpecReads == ReadsInit /\ [][ReadsNext]_vars /\ WF_vars(ReadsNext)

\* What the mounted view shows is what it shows for a user without workouts
ShowsNoData ==
    /\ page = "Dashboard" => currentStreak = 0
    /\ page = "Progress" =>
          /\ \A k \in DOMAIN weeklyVolume : weeklyVolume[k].volume = 0
          /\ \A k \in DOMAIN monthlyWorkouts : monthlyWorkouts[k].count = 0
          /\ personalRecords = <<>>
    /\ page = "History" => historyList = <<>>
    /\ page = "Profile" =>
          profileStats = [totalWorkouts |-> 0, totalWeightLifted |-> 0, exercisesUsed |-> 0]

----------------------------------------------------------------------------
(* Aggregations run again *)

\* Bounds of the repeated runs
MaxRerunWorkouts == 2      \* workouts of the user in the store

RerunInit ==
    /\ EditorIdle
    /\ page \in Pages
    /\ storeOnline = TRUE
    /\ now \in Nows
    /\ \E n \in 0..MaxRerunWorkouts :
          /\ workouts \in [1..n -> UNION {StoreWorkouts(now, id) : id \in 1..n}]
          /\ \A i \in 1..n : workouts[i].id = i
    /\ workoutExercises = WorkoutExercisesOf(workouts, BenchPress)
    /\ NothingShown
    /\ pc = "fetched"

\* The auth state hands out a new user object: the effect on [user] of the
\* mounted view runs its fetch again, on the same store at the same time
userChanged ==
    /\ pc \in {"done", "redone"}
    /\ pc' = "refetched"
    /\ UNCHANGED <<viewInputs, dashboardOut, progressOut, historyOut, profileOut, loading>>
    /\ UNCHANGED <<editorVars, sessionVars, settingsVars, policyVars, callVars, templateVars>>

RerunNext ==
    \/ fetchDashboardStats
    \/ fetchProgressData
    \/ fetchHistory
    \/ fetchWorkouts
    \/ fetchProfileStats
    \/ userChanged

SpecRerun == RerunInit /\ [][RerunNext]_vars

----------------------------------------------------------------------------
\* The fetched workouts with a set of that weight (null as 0) for the name
ReachedBy(ws, name, weight) ==
    {i \in DOMAIN ws :
        \E e \in DOMAIN ws[i].workout_exercises :
            /\ ws[i].workout_exercises[e].exercise = name
            /\ \E k \in DOMAIN ws[i].workout_exercises[e].sets :
                  OrZero(ws[i].workout_exercises[e].sets[k].weight) = weight}

(* C24: a personal record carries the date of the first workout in         *)
(* traversal order with a set of the record's weight; the input being      *)
(* sorted by completion time descending, no workout that reached the       *)
(* weight was completed later than that date.                              *)
C24_TiesKeepFirstMet ==
    pc = "done" =>
        \A r \in DOMAIN prMap :
            LET reached == ReachedBy(workouts, prMap[r].exercise, prMap[r].weight)
            IN /\ reached # {}
               /\ \A i \in reached :
                     /\ (\A j \in reached : i <= j) =>
                           prMap[r].date = workouts[i].completed_at
                     /\ workouts[i].completed_at <= prMap[r].date

\* Two workouts of different dates both reached the record's weight
C24_Witness ==
    /\ pc = "done"
    /\ \E r \in DOMAIN prMap :
          \E i, j \in ReachedBy(workouts, prMap[r].exercise, prMap[r].weight) :
              /\ workouts[i].completed_at > workouts[j].completed_at
              /\ prMap[r].date = workouts[i].completed_at
              /\ prMap[r].weight > 0

----------------------------------------------------------------------------
\* The sets of the exercise in the user's workouts completed on day d
RECURSIVE SetsOnDay(_, _)
SetsOnDay(rows, d) ==
    IF rows = <<>> THEN <<>>
    ELSE (IF /\ Head(rows).workout.user_id = User
             /\ Head(rows).workout.completed_at # NULL
             /\ Head(rows).workout.completed_at \div TicksPerDay = d
          THEN Head(rows).sets ELSE <<>>) \o SetsOnDay(Tail(rows), d)

\* weight x reps of the sets, null as 0, summed
DayVolumeOf(sets) ==
    SeqSum([k \in DOMAIN sets |-> OrZero(sets[k].weight) * OrZero(sets[k].reps)])

(* C25: every history entry holds, for the sets of the exercise in the     *)
(* user's workouts completed on its day, the greatest weight and the sum   *)
(* of weight x reps, null counted as 0.                                    *)
C25_EntryIsDayMaxAndVolume ==
    pc = "done" =>
        \A h \in DOMAIN history :
            LET sets == SetsOnDay(workoutExercises, history[h].date)
            IN /\ sets # <<>> =>
                     /\ \E k \in DOMAIN sets : OrZero(sets[k].weight) = history[h].maxWeight
                     /\ \A k \in DOMAIN sets : OrZero(sets[k].weight) <= history[h].maxWeight
               /\ history[h].totalVolume = DayVolumeOf(sets)

\* The same with the maximum taken from 0 upwards, as the code takes it
EntryIsDayMaxFromZero ==
    pc = "done" =>
        \A h \in DOMAIN history :
            LET sets == SetsOnDay(workoutExercises, history[h].date)
            IN /\ \/ history[h].maxWeight = 0
                  \/ \E k \in DOMAIN sets : OrZero(sets[k].weight) = history[h].maxWeight
               /\ history[h].maxWeight >= 0
               /\ \A k \in DOMAIN sets : OrZero(sets[k].weight) <= history[h].maxWeight
               /\ history[h].totalVolume = DayVolumeOf(sets)

----------------------------------------------------------------------------
(* The editor's timer *)

TimerNext ==
    \/ fetchWorkout
    \/ refetchWorkout
    \/ Tick
    \/ \E ok \in BOOLEAN : finishWorkout(ok)
    \/ \E confirmed \in BOOLEAN, ok \in BOOLEAN : cancelWorkout(confirmed, ok)
    \/ openSettings

TimerInit == EditorIdle /\ ViewIdle

SpecTimer == TimerInit /\ [][TimerNext]_vars

\* The callback of the timer has run since the timer was set
HasRun(t) == t.due > t.created + StepsPerSecond

----------------------------------------------------------------------------
(* Row-level security *)

OtherUser == 2             \* auth.uid() of a second authenticated user
Users == {User, OtherUser}
CustomExercise == 2        \* id of a custom exercise

\* Bounds of the store requests
MaxPolicyWorkouts == 2     \* ids of public.workouts
MaxPolicyEntries == 1      \* ids of public.workout_exercises
MaxPolicySets == 1         \* ids of public.sets

\* "Anyone can view default exercises" or "Users can view their custom
\* exercises": the permissive policies of a command are or-ed
ExercisesSelect(u, r) ==
    \/ (r.is_custom = FALSE \/ r.user_id = NULL)
    \/ u = r.user_id

\* The insert, update and delete policies on public.exercises
ExercisesWrite(u, r) == u = r.user_id /\ r.is_custom = TRUE

\* The four policies on public.workouts
WorkoutsPolicy(u, r) == u = r.user_id

\* The four policies on public.workout_exercises
WorkoutExercisesPolicy(u, r) ==
    \E w \in public.workouts : w.id = r.workout_id /\ w.user_id = u

\* The four policies on public.sets
SetsPolicy(u, r) ==
    \E we \in public.workout_exercises, w \in public.workouts :
        /\ we.workout_id = w.id
        /\ we.id = r.workout_exercise_id
        /\ w.user_id = u

\* REFERENCES ... : the referenced row exists (checked without row security)
HasId(rows, id) == \E r \in rows : r.id = id

\* ON DELETE CASCADE from public.workouts and public.exercises to
\* public.workout_exercises, and from there to public.sets.
\* The tables after a statement has left the workouts ws, the exercises xs
\* and the entries es
Cascaded(xs, ws, es) ==
    LET left == {e \in es : HasId(ws, e.workout_id) /\ HasId(xs, e.exercise_id)}
    IN [exercises |-> xs, workouts |-> ws, workout_exercises |-> left,
        sets |-> {r \in public.sets : HasId(left, r.workout_exercise_id)}]

\* The rows a select of the table returns to u
Visible(u, table) ==
    CASE table = "exercises" -> {r \in public.exercises : ExercisesSelect(u, r)}
      [] table = "workouts" -> {r \in public.workouts : WorkoutsPolicy(u, r)}
      [] table = "workout_exercises" ->
            {r \in public.workout_exercises : WorkoutExercisesPolicy(u, r)}
      [] table = "sets" -> {r \in public.sets : SetsPolicy(u, r)}

Tables == {"exercises", "workouts", "workout_exercises", "sets"}

select(u, table) ==
    /\ uid' = u
    /\ result' = [table |-> table, rows |-> Visible(u, table)]
    /\ UNCHANGED public
    /\ UNCHANGED <<editorVars, sessionVars, settingsVars, callVars, templateVars, viewVars>>

\* A write statement of u that leaves the tables as t
Written(u, t) ==
    /\ uid' = u
    /\ public' = t
    /\ result' = [table |-> "", rows |-> {}]
    /\ UNCHANGED <<editorVars, sessionVars, settingsVars, callVars, templateVars, viewVars>>

insertWorkout(u, r) ==
    /\ ~HasId(public.workouts, r.id)
    /\ WorkoutsPolicy(u, r)
    /\ Written(u, [public EXCEPT !.workouts = @ \cup {r}])

\* An update policy without WITH CHECK applies its USING expression to the
\* new row as well
updateWorkout(u, old, r) ==
    /\ old \in public.workouts /\ r.id = old.id /\ r # old
    /\ WorkoutsPolicy(u, old)
    /\ WorkoutsPolicy(u, r)
    /\ Written(u, [public EXCEPT !.workouts = (@ \ {old}) \cup {r}])

deleteWorkout(u, old) ==
    /\ old \in public.workouts
    /\ WorkoutsPolicy(u, old)
    /\ Written(u, Cascaded(public.exercises, public.workouts \ {old},
                           public.workout_exercises))

insertWorkoutExercise(u, r) ==
    /\ ~HasId(public.workout_exercises, r.id)
    /\ HasId(public.workouts, r.workout_id)
    /\ HasId(public.exercises, r.exercise_id)
    /\ WorkoutExercisesPolicy(u, r)
    /\ Written(u, [public EXCEPT !.workout_exercises = @ \cup {r}])

updateWorkoutExercise(u, old, r) ==
    /\ old \in public.workout_exercises /\ r.id = old.id /\ r # old
    /\ HasId(public.workouts, r.workout_id)
    /\ HasId(public.exercises, r.exercise_id)
    /\ WorkoutExercisesPolicy(u, old)
    /\ WorkoutExercisesPolicy(u, r)
    /\ Written(u, [public EXCEPT !.workout_exercises = (@ \ {old}) \cup {r}])

deleteWorkoutExercise(u, old) ==
    /\ old \in public.workout_exercises
    /\ WorkoutExercisesPolicy(u, old)
    /\ Written(u, Cascaded(public.exercises, public.workouts,
                           public.workout_exercises \ {old}))

insertSet(u, r) ==
    /\ ~HasId(public.sets, r.id)
    /\ HasId(public.workout_exercises, r.workout_exercise_id)
    /\ SetsPolicy(u, r)
    /\ Written(u, [public EXCEPT !.sets = @ \cup {r}])

updateSetRow(u, old, r) ==
    /\ old \in public.sets /\ r.id = old.id /\ r # old
    /\ SetsPolicy(u, old)
    /\ SetsPolicy(u, r)
    /\ Written(u, [public EXCEPT !.sets = (@ \ {old}) \cup {r}])

deleteSetRow(u, old) ==
    /\ old \in public.sets
    /\ SetsPolicy(u, old)
    /\ Written(u, [public EXCEPT !.sets = @ \ {old}])

insertExercise(u, r) ==
    /\ ~HasId(public.exercises, r.id)
    /\ ExercisesWrite(u, r)
    /\ Written(u, [public EXCEPT !.exercises = @ \cup {r}])

updateExercise(u, old, r) ==
    /\ old \in public.exercises /\ r.id = old.id /\ r # old
    /\ ExercisesWrite(u, old)
    /\ ExercisesWrite(u, r)
    /\ Written(u, [public EXCEPT !.exercises = (@ \ {old}) \cup {r}])

\* The delete of an exercise takes the entries that name it with it, whose
\* workouts they may be
deleteExercise(u, old) ==
    /\ old \in public.exercises
    /\ ExercisesWrite(u, old)
    /\ Written(u, Cascaded(public.exercises \ {old}, public.workouts,
                           public.workout_exercises))

\* The rows a request may name
WorkoutRows == [id : 1..MaxPolicyWorkouts, user_id : Users, name : {"Push", "Pull"}]
WorkoutExerciseRows ==
    [id : 1..MaxPolicyEntries, workout_id : 1..MaxPolicyWorkouts,
     exercise_id : {BenchPress, CustomExercise}]
SetRows ==
    [id : 1..MaxPolicySets, workout_exercise_id : 1..MaxPolicyEntries, weight : {100, 120}]
ExerciseRows ==
    [id : {BenchPress, CustomExercise}, name : {BenchPress, Squat}, is_custom : BOOLEAN,
     user_id : Users \cup {NULL}]

\* The requests of the authenticated users, made with the application or
\* without it
PolicyNext ==
    \/ \E u \in Users, table \in Tables : select(u, table)
    \/ \E u \in Users, r \in WorkoutRows : insertWorkout(u, r)
    \/ \E u \in Users, old \in WorkoutRows, r \in WorkoutRows : updateWorkout(u, old, r)
    \/ \E u \in Users, old \in WorkoutRows : deleteWorkout(u, old)
    \/ \E u \in Users, r \in WorkoutExerciseRows : insertWorkoutExercise(u, r)
    \/ \E u \in Users, old \in WorkoutExerciseRows, r \in WorkoutExerciseRows :
          updateWorkoutExercise(u, old, r)
    \/ \E u \in Users, old \in WorkoutExerciseRows : deleteWorkoutExercise(u, old)
    \/ \E u \in Users, r \in SetRows : insertSet(u, r)
    \/ \E u \in Users, old \in SetRows, r \in SetRows : updateSetRow(u, old, r)
    \/ \E u \in Users, old \in SetRows : deleteSetRow(u, old)
    \/ \E u \in Users, r \in ExerciseRows : insertExercise(u, r)
    \/ \E u \in Users, old \in ExerciseRows, r \in ExerciseRows : updateExercise(u, old, r)
    \/ \E u \in Users, old \in ExerciseRows : deleteExercise(u, old)

PolicyInit == EditorIdle /\ ViewIdle

SpecPolicy == PolicyInit /\ [][PolicyNext]_vars

\* The user a row belongs to: the owner of its workout, or of the exercise
WorkoutOwner(id) == {w.user_id : w \in {x \in public.workouts : x.id = id}}
EntryOwner(id) ==
    UNION {WorkoutOwner(e.workout_id) : e \in {x \in public.workout_exercises : x.id = id}}

\* The rows of v: the workouts of v with their entries and sets, and the
\* custom exercises of v
RowsOf(v) ==
    [workouts |-> {w \in public.workouts : w.user_id = v},
     workout_exercises |-> {e \in public.workout_exercises : v \in WorkoutOwner(e.workout_id)},
     sets |-> {r \in public.sets : v \in EntryOwner(r.workout_exercise_id)},
     exercises |-> {x \in public.exercises : x.is_custom = TRUE /\ x.user_id = v}]

(* C27: a select returns to a user no workout, exercise entry or set of    *)
(* another user's workout and no custom exercise of another user, and a    *)
(* request of one user leaves the rows of every other user as they were.   *)
C27_RowsOfOthersUntouched ==
    /\ [](\A v \in Users \ {uid} :
             /\ result.table = "workouts" => result.rows \cap RowsOf(v).workouts = {}
             /\ result.table = "workout_exercises" =>
                   result.rows \cap RowsOf(v).workout_exercises = {}
             /\ result.table = "sets" => result.rows \cap RowsOf(v).sets = {}
             /\ result.table = "exercises" => result.rows \cap RowsOf(v).exercises = {})
    /\ [][\A v \in Users \ {uid'} : RowsOf(v)' = RowsOf(v)]_vars

\* The same for requests that do not delete an exercise
UntouchedButByExerciseDelete ==
    [][(\A v \in Users \ {uid'} : RowsOf(v)' = RowsOf(v))
       \/ \E old \in ExerciseRows : deleteExercise(uid', old)]_vars

----------------------------------------------------------------------------
(* Overlapping calls of the editor's handlers *)

\* Bound of the editor's calls
MaxCalls == 3              \* calls of handlers made in one session

\* A call of a handler that waits for the store: the handler's arguments and
\* the `exercises` of the render it was made in (the handler's closure);
\* `overlaps` are the earlier calls that were still waiting when it was made
HandlerCall(op, exercise, id, n, field, value) ==
    [op |-> op, exercises |-> exercises, exercise |-> exercise, id |-> id, n |-> n,
     field |-> field, value |-> value, status |-> "waiting", made |-> NULL,
     overlaps |-> {k \in DOMAIN calls : calls[k].status = "waiting"}]

\* What a call leaves alone until the store answers
CallMade ==
    /\ page = "ActiveWorkout"
    /\ Len(calls) < MaxCalls
    /\ UNCHANGED <<editorVars, sessionVars, settingsVars, policyVars, templateVars, viewVars>>

\* addExercise(exercise) up to its first await: order_index is exercises.length
callAddExercise(exercise) ==
    /\ CallMade
    /\ Len(exercises) < MaxExercises
    /\ calls' = Append(calls, HandlerCall("addExercise", exercise, NULL, Len(exercises),
                                          "", NULL))

\* addSet(we.id, we.sets) up to its await: set_number is currentSets.length + 1
callAddSet(i) ==
    /\ CallMade
    /\ i \in DOMAIN exercises
    /\ Len(exercises[i].sets) < MaxSets
    /\ calls' = Append(calls, HandlerCall("addSet", "", exercises[i].id,
                                          NextSetNumber(exercises[i].sets), "", NULL))

\* updateSet(setId, field, value) up to its await
callUpdateSet(setId, field, value) ==
    /\ CallMade
    /\ \E i \in DOMAIN exercises : \E s \in Range(exercises[i].sets) : s.id = setId
    /\ calls' = Append(calls, HandlerCall("updateSet", "", setId, NULL, field, value))

\* The store answers the call k of op
Answered(k, op) ==
    /\ k \in DOMAIN calls
    /\ calls[k].op = op
    /\ calls[k].status = "waiting"
    /\ UNCHANGED <<sessionVars, settingsVars, policyVars, templateVars, viewVars>>

Ended(k, ok, made) ==
    calls' = [calls EXCEPT ![k].status = IF ok THEN "ok" ELSE "failed", ![k].made = made]

\* addExercise after its awaits: setExercises([...exercises, { id, exercise, sets }])
\* with the exercises of the call
returnAddExercise(k, okEntry, okSet) ==
    /\ Answered(k, "addExercise")
    /\ nextId + 1 <= MaxId
    /\ IF ~okEntry \/ dbWorkout = {}
       THEN /\ UNCHANGED editorVars
            /\ Ended(k, FALSE, NULL)
       ELSE LET c == calls[k]
                weId == nextId
                setId == nextId + 1
                firstSet == NewSetRow(setId, weId, 1)
            IN /\ dbWorkoutExercises' = dbWorkoutExercises \cup
                     {[id |-> weId, workout_id |-> WorkoutId,
                       exercise_id |-> c.exercise, order_index |-> c.n]}
               /\ dbSets' = IF okSet THEN dbSets \cup {firstSet} ELSE dbSets
               /\ nextId' = IF okSet THEN nextId + 2 ELSE nextId + 1
               /\ exercises' = Append(c.exercises,
                     [id |-> weId, exercise |-> c.exercise,
                      sets |-> IF okSet THEN <<firstSet>> ELSE <<>>])
               /\ Ended(k, okSet, weId)

\* addSet after its await: setExercises(exercises.map(...)) with the
\* exercises of the call
returnAddSet(k, ok) ==
    /\ Answered(k, "addSet")
    /\ nextId <= MaxId
    /\ IF ~ok
       THEN /\ UNCHANGED editorVars
            /\ Ended(k, FALSE, NULL)
       ELSE LET c == calls[k]
                data == NewSetRow(nextId, c.id, c.n)
            IN /\ dbSets' = dbSets \cup {data}
               /\ nextId' = nextId + 1
               /\ exercises' = [j \in DOMAIN c.exercises |->
                                   IF c.exercises[j].id = c.id
                                   THEN [c.exercises[j] EXCEPT !.sets = Append(@, data)]
                                   ELSE c.exercises[j]]
               /\ UNCHANGED dbWorkoutExercises
               /\ Ended(k, TRUE, nextId)

\* updateSet after its await: the result of the store update is not
\* inspected, setExercises(exercises.map(...)) with the exercises of the call
returnUpdateSet(k, ok) ==
    /\ Answered(k, "updateSet")
    /\ LET c == calls[k]
       IN /\ dbSets' = IF ok
                       THEN {IF r.id = c.id
                             THEN [r EXCEPT ![c.field] = Coerced(c.field, c.value)]
                             ELSE r : r \in dbSets}
                       ELSE dbSets
          /\ exercises' = [i \in DOMAIN c.exercises |->
                              [c.exercises[i] EXCEPT !.sets =
                                  [j \in DOMAIN @ |->
                                      IF @[j].id = c.id THEN [@[j] EXCEPT ![c.field] = c.value]
                                      ELSE @[j]]]]
          /\ Ended(k, ok, c.id)
    /\ UNCHANGED <<dbWorkoutExercises, nextId>>

\* The values typed in the session: 100 kg, 5 repetitions
OverlapValues == {<<"weight", 100 * WeightScale>>, <<"reps", 5>>}

OverlapNext ==
    \/ \E e \in ExerciseIds : callAddExercise(e)
    \/ \E i \in 1..MaxExercises : callAddSet(i)
    \/ \E setId \in 1..MaxId, fv \in OverlapValues : callUpdateSet(setId, fv[1], fv[2])
    \/ \E k \in 1..MaxCalls, okEntry \in BOOLEAN, okSet \in BOOLEAN :
          returnAddExercise(k, okEntry, okSet)
    \/ \E k \in 1..MaxCalls, ok \in BOOLEAN : returnAddSet(k, ok)
    \/ \E k \in 1..MaxCalls, ok \in BOOLEAN : returnUpdateSet(k, ok)

OverlapInit == EditorIdle /\ ViewIdle

SpecOverlap == OverlapInit /\ [][OverlapNext]_vars

\* The sets of the local list
LocalSets == UNION {Range(exercises[i].sets) : i \in DOMAIN exercises}

\* Calls k and l overlap: one was made while the other was waiting
Overlap(k, l) == k \in calls[l].overlaps \/ l \in calls[k].overlaps

\* Every call has completed, each with success, and two of them overlapped
OverlappedAndDone ==
    /\ \A k \in DOMAIN calls : calls[k].status = "ok"
    /\ \E k, l \in DOMAIN calls : Overlap(k, l)

(* C28: once overlapping calls have all completed with success, the local  *)
(* list holds the entry of every addExercise and the set of every addSet,  *)
(* the sets of an entry have different set numbers, and of two overlapping *)
(* updateSet calls on different fields of a set both values are kept.      *)
C28_OverlappingCallsBothKept ==
    OverlappedAndDone =>
        /\ \A k \in DOMAIN calls :
              /\ calls[k].op = "addExercise" =>
                    \E i \in DOMAIN exercises : exercises[i].id = calls[k].made
              /\ calls[k].op = "addSet" =>
                    \E s \in LocalSets : s.id = calls[k].made
        /\ \A i \in DOMAIN exercises : \A j, m \in DOMAIN exercises[i].sets :
              j # m => exercises[i].sets[j].set_number # exercises[i].sets[m].set_number
        /\ \A k, l \in DOMAIN calls :
              (/\ Overlap(k, l)
               /\ calls[k].op = "updateSet" /\ calls[l].op = "updateSet"
               /\ calls[k].id = calls[l].id /\ calls[k].field # calls[l].field) =>
                 \A s \in LocalSets :
                    s.id = calls[k].id =>
                       s[calls[k].field] = calls[k].value /\ s[calls[l].field] = calls[l].value

\* What does hold: a call that ends leaves the local list of its own render
\* with its own effect, so the calls that ended since it was made are lost
LastCallWins ==
    [][\A k \in DOMAIN calls :
          (calls[k].status = "waiting" /\ calls'[k].status = "ok") =>
             /\ Len(exercises') >= Len(calls[k].exercises)
             /\ \A i \in DOMAIN calls[k].exercises :
                   /\ exercises'[i].id = calls[k].exercises[i].id
                   /\ \A j \in DOMAIN calls[k].exercises[i].sets :
                         exercises'[i].sets[j].id = calls[k].exercises[i].sets[j].id]_vars

----------------------------------------------------------------------------
(* The editor's operations one after the other, every write succeeding *)

\* The values typed in the session: 100 kg, 5 repetitions, an effort of
\* 7.5 or of 7.25, or the field cleared
SequenceValues ==
    {<<"weight", 100 * WeightScale>>, <<"reps", 5>>,
     <<"rpe", 7 * RpeScale + 50>>, <<"rpe", 7 * RpeScale + 25>>, <<"rpe", NULL>>}

SequenceNext ==
    \/ \E e \in ExerciseIds : addExercise(e, TRUE, TRUE)
    \/ \E i \in 1..MaxExercises : addSet(i, TRUE)
    \/ \E i \in 1..MaxExercises, setId \in 1..MaxId : deleteSet(i, setId, TRUE)
    \/ \E i \in 1..MaxExercises : removeExercise(i, TRUE)
    \/ \E setId \in 1..MaxId, fv \in SequenceValues : updateSet(setId, fv[1], fv[2], TRUE)
    \/ \E setId \in 1..MaxId : toggleSetComplete(setId, TRUE)
    \/ fetchWorkout

\* A session of a user whose store has handed out all but three keys
SequenceInit ==
    /\ NoEntries
    /\ StoreSeeded
    /\ nextId = MaxId - 2
    /\ SessionStarted
    /\ SettingsDefault
    /\ ViewIdle

SpecSequence == SequenceInit /\ [][SequenceNext]_vars

\* The columns of a set the editor shows
Shown(s) ==
    [id |-> s.id, weight |-> s.weight, reps |-> s.reps, rpe |-> s.rpe,
     is_completed |-> s.is_completed]

\* The rows the store holds for the editor's workout
StoredEntries == {r \in dbWorkoutExercises : r.workout_id = WorkoutId}

(* C29: after the editor's operations, made one after the other with every *)
(* write succeeding, the local entries are the store's entries of the      *)
(* workout and the local sets of each entry are the store's sets of that   *)
(* entry, with the same weight, reps, effort rating and completion flag.   *)
C29_LocalEqualsStore ==
    /\ {exercises[i].id : i \in DOMAIN exercises} = {r.id : r \in StoredEntries}
    /\ \A i \in DOMAIN exercises :
          {Shown(s) : s \in Range(exercises[i].sets)}
             = {Shown(r) : r \in SetsOf(exercises[i].id)}

\* What does hold: the local list equals the store's rows once the store's
\* rounding is applied to the local values
LocalEqualsStoreRounded ==
    /\ {exercises[i].id : i \in DOMAIN exercises} = {r.id : r \in StoredEntries}
    /\ \A i \in DOMAIN exercises :
          {[Shown(s) EXCEPT !.rpe = Coerced("rpe", @)] : s \in Range(exercises[i].sets)}
             = {Shown(r) : r \in SetsOf(exercises[i].id)}

----------------------------------------------------------------------------
(* Templates: a workout started from a template *)

DefaultSets == 3           \* te.target_sets || 3

\* Bounds of the template
MaxTemplateExercises == 2  \* rows of public.template_exercises of the template
MaxTargetSets == 2         \* the largest target_sets of a row

\* What the columns of public.template_exercises allow: target_sets is a
\* nullable INTEGER
TemplateShapes ==
    [exercise_id : ExerciseIds, order_index : 0..(MaxTemplateExercises - 1),
     target_sets : {NULL} \cup 0..MaxTargetSets]

\* The template whose k-th row has the shape f[k]
TemplateOf(f) ==
    {[id |-> k, exercise_id |-> f[k].exercise_id, order_index |-> f[k].order_index,
      target_sets |-> f[k].target_sets] : k \in DOMAIN f}

\* const numSets = te.target_sets || 3
NumSets(te) == IF te.target_sets = NULL \/ te.target_sets = 0 THEN DefaultSets
               ELSE te.target_sets

\* The inner loop from i on: a row of public.sets for every insert that
\* succeeds, the results are not inspected
RECURSIVE InsertSets(_, _, _, _, _)
InsertSets(acc, weId, i, numSets, ok) ==
    IF i > numSets THEN acc
    ELSE InsertSets(IF ok[i]
                    THEN [acc EXCEPT !.sets = @ \cup {NewSetRow(acc.nextId, weId, i)},
                                     !.nextId = @ + 1]
                    ELSE acc,
                    weId, i + 1, numSets, ok)

\* The loop over templateExercises from the k-th on. An entry whose insert
\* fails leaves workoutExercise null, and workoutExercise.id of the first
\* set throws.
RECURSIVE CopyExercises(_, _, _, _, _)
CopyExercises(acc, tes, k, okEntry, okSet) ==
    IF k > Len(tes) THEN acc
    ELSE IF ~okEntry[k]
         THEN IF NumSets(tes[k]) >= 1 THEN [acc EXCEPT !.thrown = TRUE]
              ELSE CopyExercises(acc, tes, k + 1, okEntry, okSet)
         ELSE LET weId == acc.nextId
                  entry == [id |-> weId, workout_id |-> WorkoutId,
                            exercise_id |-> tes[k].exercise_id,
                            order_index |-> tes[k].order_index]
                  inserted == [acc EXCEPT !.entries = @ \cup {entry}, !.nextId = @ + 1]
              IN CopyExercises(InsertSets(inserted, weId, 1, NumSets(tes[k]), okSet[k]),
                               tes, k + 1, okEntry, okSet)

\* startFromTemplate(templateId, templateName): the workout is inserted, the
\* template's rows are read by order_index (no rows when the read fails),
\* and every row is copied with its sets; then the toast and the navigation
\* to the editor, or the error toast when something was thrown.
startFromTemplate(okWorkout, okRead, okEntry, okSet) ==
    /\ page = "Templates"
    /\ dbWorkout = {}
    /\ IF ~okWorkout
       THEN /\ toast' = "Error"
            /\ UNCHANGED <<dbWorkout, dbWorkoutExercises, dbSets, nextId, page>>
       ELSE \E tes \in IF okRead THEN OrderedBy(templateExercises, "order_index") ELSE {<<>>} :
               LET copied == CopyExercises([entries |-> {}, sets |-> {}, nextId |-> nextId,
                                            thrown |-> FALSE],
                                           tes, 1, okEntry, okSet)
               IN /\ dbWorkout' = {[started_at |-> clock, completed_at |-> NULL,
                                    duration_seconds |-> NULL]}
                  /\ dbWorkoutExercises' = copied.entries
                  /\ dbSets' = copied.sets
                  /\ nextId' = copied.nextId
                  /\ toast' = IF copied.thrown THEN "Error" ELSE "Workout started!"
                  /\ page' = IF copied.thrown THEN page ELSE "ActiveWorkout"
    /\ UNCHANGED <<exercises, workout, elapsedTime, clock, timers>>
    /\ UNCHANGED <<settingsVars, policyVars, callVars, templateVars, viewData>>

\* The answers of the store to the inserts of the loops: any of the entries
\* and at most one of the sets is rejected
EntryAnswers == [1..MaxTemplateExercises -> BOOLEAN]
AllSets == [k \in 1..MaxTemplateExercises |-> [i \in 1..DefaultSets |-> TRUE]]
SetAnswers ==
    {AllSets} \cup {[AllSets EXCEPT ![k][i] = FALSE] :
                       k \in 1..MaxTemplateExercises, i \in 1..DefaultSets}

TemplateNext ==
    \/ \E okWorkout \in BOOLEAN, okRead \in BOOLEAN, okEntry \in EntryAnswers,
          okSet \in SetAnswers :
          startFromTemplate(okWorkout, okRead, okEntry, okSet)
    \/ fetchWorkout

\* The Templates page of a user with a template and no workout
TemplateInit ==
    /\ exercises = <<>>
    /\ calls = <<>>
    /\ dbWorkoutExercises = {}
    /\ dbSets = {}
    /\ nextId = 1
    /\ \E n \in 0..MaxTemplateExercises : \E f \in [1..n -> TemplateShapes] :
          templateExercises = TemplateOf(f)
    /\ dbWorkout = {}
    /\ workout = NoWorkout
    /\ elapsedTime = 0
    /\ clock = 0
    /\ timers = <<>>
    /\ toast = "none"
    /\ StoreSeeded
    /\ SettingsDefault
    /\ page = "Templates"
    /\ storeOnline = TRUE
    /\ now = 0
    /\ workouts = <<>>
    /\ workoutExercises = <<>>
    /\ NothingShown
    /\ pc = "idle"

SpecTemplate == TemplateInit /\ [][TemplateNext]_vars

\* The number of sets a template row asks for: its target, or 3 when it
\* has none
TargetOrDefault(te) == IF te.target_sets = NULL THEN DefaultSets ELSE te.target_sets

\* The sets of the entry we are numbered 1..n
NumberedTo(we, n) ==
    /\ Cardinality(SetsOf(we.id)) = n
    /\ {r.set_number : r \in SetsOf(we.id)} = 1..n

\* The store holds the workout in progress with one entry for every row of
\* the template, each with n(te) sets
CopiedWith(n(_)) ==
    /\ dbWorkout # {}
    /\ \A w \in dbWorkout : w.completed_at = NULL
    /\ \E f \in [templateExercises -> StoredEntries] :
          /\ \A a, b \in templateExercises : f[a] = f[b] => a = b
          /\ \A we \in StoredEntries : \E te \in templateExercises : f[te] = we
          /\ \A te \in templateExercises :
                /\ f[te].exercise_id = te.exercise_id
                /\ f[te].order_index = te.order_index
                /\ NumberedTo(f[te], n(te))

(* C30: when startFromTemplate has shown 'Workout started!', the new       *)
(* workout is in progress and has one entry for every exercise of the      *)
(* template, with its exercise and order index and with sets numbered      *)
(* 1..n, n being the row's target_sets, or 3 when the row has none.        *)
C30_WorkoutCopiesTemplate ==
    toast = "Workout started!" => CopiedWith(TargetOrDefault)

\* What does hold: when the store has answered every read and insert, the
\* copy is the template's with 3 sets also for a target of 0
CopiedWhenAllAnswered ==
    [][startFromTemplate(TRUE, TRUE, [k \in 1..MaxTemplateExercises |-> TRUE], AllSets)
          => (toast' = "Workout started!" /\ CopiedWith(NumSets)')]_vars

====
